---- MODULE Spec2Model ----
(***************************************************************************)
(* Model of the asynchronous command dispatch engine of lando_gui          *)
(* (src/src/lando.rs) and of the channel through which its worker threads  *)
(* report to the single-threaded UI consumer.                              *)
(*                                                                         *)
(* One "operation" is one call of a dispatch function of lando.rs.  Each   *)
(* call spawns a worker thread; run_lando_command and run_shell_command    *)
(* additionally spawn one pump thread per output stream.  The external     *)
(* process (its spawn result, what it writes, when it closes a stream,     *)
(* its exit status) is the environment and is chosen nondeterministically. *)
(***************************************************************************)
EXTENDS Naturals, Sequences, FiniteSets, TLC

\* ------------------------------------------------------------------ bounds
\* Number of operations dispatched in one behaviour (they may all be in flight
\* at once).
MaxOps == 2
\* Number of non-empty reads the stream pumps of one behaviour may see, all
\* operations and streams together, before every stream ends.
MaxChunks == 2

\* ------------------------------------------------------- program constants
\* let mut buffer = [0; 1024];
BufferSize == 1024

OpIds == 1..MaxOps

\* The dispatch functions of lando.rs.
StreamKinds == {"run_lando_command", "run_shell_command"}
OutputKinds == {"list_apps", "get_project_info", "run_db_query", "test_db_connection"}
Kinds == StreamKinds \cup OutputKinds \cup {"scan_for_projects"}

\* enum LandoCommandOutcome
Tags == {"List", "Projects", "Info", "DbQueryResult", "Error", "CommandSuccess",
         "FinishedLoading", "LogOutput"}
\* The outcomes that end an operation.
TerminalTags == {"List", "Info", "Projects", "DbQueryResult", "CommandSuccess", "Error"}

\* ---------------------------------------------------- environment samples
\* Display text of the io::Error of a failed spawn.
OsErrors == {<<"ENOENT">>, <<"EACCES">>}
\* Lifecycle commands the controls pass to run_lando_command.
LandoCommands == {<<"start">>, <<"stop">>}
ShellCommands == {<<"ls">>}
Paths == {<<"a">>}
Services == {"database"}
Queries == {"SELECT 1"}

\* A text or byte string is a sequence of strings, one per character (or one
\* per word where the letters do not matter); "0xFF" stands for a byte that is
\* no valid UTF-8.
Alive == <<"a", "l", "i", "v", "e">>
StdoutSamples ==
    { <<"i", "s", " ">> \o Alive,
      <<"a", "l", "i", "v">>,
      <<"0xFF", "x">> }
StderrSamples == { <<"e", "r", "r">>, <<"0xFF">> }
\* Documents `lando list` / `lando info` may print.
JsonSamples ==
    { <<"[", "site1", "]">>,
      <<"[", "site1", "site2", "]">>,
      <<"[", "site1">>,
      <<>> }

\* String::from_utf8_lossy: invalid bytes become U+FFFD.
FromUtf8Lossy(b) == [i \in DOMAIN b |-> IF b[i] = "0xFF" THEN "U+FFFD" ELSE b[i]]

\* str::contains
Contains(s, pat) ==
    \E i \in 1..(Len(s) + 1) :
        /\ i + Len(pat) - 1 <= Len(s)
        /\ SubSeq(s, i, i + Len(pat) - 1) = pat

\* serde_json::from_slice::<Vec<_>>: a document decodes when it is a closed
\* array of known items; the decoded vector is the items.
JsonItems == {"site1", "site2"}
DecodeOk(b) ==
    /\ Len(b) >= 2
    /\ b[1] = "["
    /\ b[Len(b)] = "]"
    /\ \A i \in 2..(Len(b) - 1) : b[i] \in JsonItems
Decoded(b) == SubSeq(b, 2, Len(b) - 1)

\* format!(template, args...)
Format(template, args) == [template |-> template, args |-> args]

\* ------------------------------------------------------------------- state
VARIABLES
    ops,        \* per operation: kind, arguments, thread positions, processes
    chan,       \* mpsc channel: messages sent and not yet received
    delivered,  \* messages the consumer has received, in order
    ui,         \* the fields of LandoGui the consumer owns
    cleared_at, \* number of messages received when the list was last cleared
    unread      \* the streams whose pump a failed read ended before their end

vars == <<ops, chan, delivered, ui, cleared_at, unread>>
\* The consumer's side of the state.
gui == <<ui, cleared_at>>
\* What no thread of an operation writes: the consumer's side, and the note of
\* the streams left unread, which only a failed read adds to.
aside == <<ui, cleared_at, unread>>

Idle == [kind |-> "none", pc |-> "none", command |-> <<>>, path |-> <<>>,
         service |-> "", query |-> "",
         procs |-> <<>>,
         out |-> [pc |-> "none", n |-> 0],
         err |-> [pc |-> "none", n |-> 0],
         status |-> "none",
         walk |-> <<>>]

Msg(o, tag, payload) == [op |-> o, tag |-> tag, payload |-> payload, src |-> "worker"]
LogMsg(o, src, k, size) ==
    [op |-> o, tag |-> "LogOutput", payload |-> [n |-> size, seq |-> k], src |-> src]

\* Everything ever sent, in send order (the channel is FIFO).
Sent == delivered \o chan

\* A rendezvous channel of capacity 1: a send waits while a message is queued.
Send_bounded(m) == Len(chan) < 1 /\ chan' = Append(chan, m)

\* A channel that hands out the newest message first.
Send_newest_first(m) == chan' = <<m>> \o chan

\* Sender::send on an unbounded mpsc channel
Send(m) == chan' = Append(chan, m)

\* An Option is a sequence of at most one element.
None == <<>>
Some(x) == <<x>>

\* The fields LandoGui::new gives the consumer.
NewGui ==
    [apps |-> <<>>, projects |-> <<>>, selected_project_path |-> None,
     services |-> <<>>, db_query_input |-> <<>>, db_query_result |-> None,
     error_message |-> None, success_message |-> None, is_loading |-> TRUE,
     show_terminal_popup |-> FALSE, log_buffer |-> <<>>, running |-> TRUE,
     database_uis |-> <<>>]

\* Slot 0 is the listing LandoGui::new dispatches; the slots of OpIds are the
\* operations dispatched afterwards.
Slots == {0} \cup OpIds

Init ==
    /\ ops = [o \in Slots |-> Idle]
    /\ chan = <<>>
    /\ delivered = <<>>
    /\ ui = NewGui
    /\ cleared_at = 0
    /\ unread = {}

\* ------------------------------------------------- the external processes
\* What one Command::output() / Command::spawn() + wait() of the worker saw.
\* ok = FALSE is a failure to spawn (Err(e)); otherwise `success` is
\* status.success() and stdout / stderr are the captured bytes.
SpawnFailures(argv) ==
    { [argv |-> argv, ok |-> FALSE, oserr |-> e, success |-> FALSE,
       stdout |-> <<>>, stderr |-> <<>>] : e \in OsErrors }
\* A process that exits with success printed one of `stdouts`; one that exits
\* with failure printed one of `failouts` and one of `stderrs`.
Exits(argv, stdouts, failouts, stderrs) ==
    { [argv |-> argv, ok |-> TRUE, oserr |-> <<>>, success |-> TRUE,
       stdout |-> so, stderr |-> <<>>] : so \in stdouts }
    \cup
    { [argv |-> argv, ok |-> TRUE, oserr |-> <<>>, success |-> FALSE,
       stdout |-> so, stderr |-> se] : so \in failouts, se \in stderrs }
\* The results the environment may give to one invocation.
OutputResults(argv, stdouts, failouts, stderrs) ==
    SpawnFailures(argv) \cup Exits(argv, stdouts, failouts, stderrs)

\* The slot a new operation takes: the lowest one never used.
Free(o) ==
    /\ ops[o].kind = "none"
    /\ \A p \in OpIds : p < o => ops[p].kind # "none"

\* thread::spawn(move || ...) in a dispatch function: the call returns at once,
\* the worker starts at the top of its closure.
Spawned(kind) == [Idle EXCEPT !.kind = kind, !.pc = "run"]

\* A worker that ends without sending its outcome.
Finish_NoSend(o, r, tag, payload) ==
    /\ ops' = [ops EXCEPT ![o].pc = "done", ![o].procs = Append(@, r)]
    /\ UNCHANGED <<chan, delivered>>

\* The worker sends its outcome and ends (let _ = sender.send(outcome)).
Finish(o, r, tag, payload) ==
    /\ ops' = [ops EXCEPT ![o].pc = "done", ![o].procs = Append(@, r)]
    /\ Send(Msg(o, tag, payload))
    /\ UNCHANGED delivered

\* ------------------------------------------------------------- list_apps
list_apps_argv == <<"lando", "list", "--format", "json">>

JsonError(b) ==
    IF Len(b) = 0 THEN <<"EOF while parsing a value">> ELSE <<"EOF while parsing a list">>

\* A listing that reports an undecodable document as an empty list.
list_apps_outcome_no_decode_error(r) ==
    IF r.ok
    THEN IF r.success
         THEN [tag |-> "List",
               payload |-> IF DecodeOk(r.stdout) THEN Decoded(r.stdout) ELSE <<>>]
         ELSE [tag |-> "Error",
               payload |-> Format("Error de Lando: {}", <<FromUtf8Lossy(r.stderr)>>)]
    ELSE [tag |-> "Error",
          payload |-> Format("No se pudo ejecutar Lando: {}", <<r.oserr>>)]

list_apps_outcome(r) ==
    IF r.ok
    THEN IF r.success
         THEN IF DecodeOk(r.stdout)
              THEN [tag |-> "List", payload |-> Decoded(r.stdout)]
              ELSE [tag |-> "Error",
                    payload |-> Format("Error al parsear JSON: {}", <<JsonError(r.stdout)>>)]
         ELSE [tag |-> "Error",
               payload |-> Format("Error de Lando: {}", <<FromUtf8Lossy(r.stderr)>>)]
    ELSE [tag |-> "Error",
          payload |-> Format("No se pudo ejecutar Lando: {}", <<r.oserr>>)]

list_apps(o) ==
    /\ Free(o)
    /\ ops' = [ops EXCEPT ![o] = Spawned("list_apps")]
    /\ UNCHANGED <<chan, delivered>>

\* A worker that reports an empty list when a listing was reported before.
list_apps_thread_reports_changes(o) ==
    /\ ops[o].kind = "list_apps"
    /\ ops[o].pc = "run"
    /\ \E r \in OutputResults(list_apps_argv, JsonSamples, {<<>>}, StderrSamples) :
          LET outcome == list_apps_outcome(r)
              seen == \E i \in DOMAIN delivered : delivered[i].tag = "List"
          IN  Finish(o, r, outcome.tag,
                     IF outcome.tag = "List" /\ seen THEN <<>> ELSE outcome.payload)

list_apps_thread(o) ==
    /\ ops[o].kind = "list_apps"
    /\ ops[o].pc = "run"
    /\ \E r \in OutputResults(list_apps_argv, JsonSamples, {<<>>}, StderrSamples) :
          LET outcome == list_apps_outcome(r)
          IN  Finish(o, r, outcome.tag, outcome.payload)

\* ------------------------------------------------------ get_project_info
get_project_info_argv == <<"lando", "info", "--format", "json">>

get_project_info_outcome(r) ==
    IF r.ok
    THEN IF r.success
         THEN IF DecodeOk(r.stdout)
              THEN [tag |-> "Info", payload |-> Decoded(r.stdout)]
              ELSE [tag |-> "Error",
                    payload |-> Format("Error al parsear JSON de lando info: {}",
                                       <<JsonError(r.stdout)>>)]
         ELSE [tag |-> "Error",
               payload |-> Format("Error de Lando info: {}", <<FromUtf8Lossy(r.stderr)>>)]
    ELSE [tag |-> "Error",
          payload |-> Format("No se pudo ejecutar Lando info: {}", <<r.oserr>>)]

get_project_info(o) ==
    /\ Free(o)
    /\ \E p \in Paths : ops' = [ops EXCEPT ![o] = [Spawned("get_project_info") EXCEPT !.path = p]]
    /\ UNCHANGED <<chan, delivered>>

get_project_info_thread(o) ==
    /\ ops[o].kind = "get_project_info"
    /\ ops[o].pc = "run"
    /\ \E r \in OutputResults(get_project_info_argv, JsonSamples, {<<>>}, StderrSamples) :
          LET outcome == get_project_info_outcome(r)
          IN  Finish(o, r, outcome.tag, outcome.payload)

\* ---------------------------------------------------------- run_db_query
db_cli_root_argv(o) ==
    <<"lando", "db-cli", "-s", ops[o].service, "-u", "root", "-e", ops[o].query>>
db_cli_argv(o) ==
    <<"lando", "db-cli", "-s", ops[o].service, "-e", ops[o].query>>

\* A worker that never falls back.
NeedsFallback_never(r) == FALSE

\* A worker that falls back after a failure to spawn as well.
NeedsFallback_any_failure(r) == ~(r.ok /\ r.success)

\* Whether the first invocation's result sends the worker to the fallback.
NeedsFallback(r) == r.ok /\ ~r.success

\* Outcome of the first invocation when there is no fallback.
run_db_query_first(r) ==
    IF r.ok
    THEN [tag |-> "DbQueryResult", payload |-> FromUtf8Lossy(r.stdout)]
    ELSE [tag |-> "Error",
          payload |-> Format("No se pudo ejecutar lando db-cli: {}", <<r.oserr>>)]

\* A fallback whose success is reported as a failure.
run_db_query_second_always_error(r) ==
    IF r.ok
    THEN [tag |-> "Error",
          payload |-> Format("Error ejecutando la consulta: {}",
                             <<FromUtf8Lossy(r.stderr)>>)]
    ELSE [tag |-> "Error",
          payload |-> Format("No se pudo ejecutar lando db-cli: {}", <<r.oserr>>)]

\* Outcome of the fallback invocation.
run_db_query_second(r) ==
    IF r.ok
    THEN IF r.success
         THEN [tag |-> "DbQueryResult", payload |-> FromUtf8Lossy(r.stdout)]
         ELSE [tag |-> "Error",
               payload |-> Format("Error ejecutando la consulta: {}",
                                  <<FromUtf8Lossy(r.stderr)>>)]
    ELSE [tag |-> "Error",
          payload |-> Format("No se pudo ejecutar lando db-cli: {}", <<r.oserr>>)]

run_db_query(o) ==
    /\ Free(o)
    /\ \E p \in Paths, s \in Services, q \in Queries :
          ops' = [ops EXCEPT ![o] = [Spawned("run_db_query") EXCEPT
                                        !.path = p, !.service = s, !.query = q]]
    /\ UNCHANGED <<chan, delivered>>

\* First invocation (-u root): on a non-zero exit the worker goes on to the
\* fallback, otherwise it sends its outcome.
run_db_query_thread(o) ==
    /\ ops[o].kind = "run_db_query"
    /\ ops[o].pc = "run"
    /\ \E r \in OutputResults(db_cli_root_argv(o), StdoutSamples, {<<>>}, StderrSamples) :
          IF NeedsFallback(r)
          THEN /\ ops' = [ops EXCEPT ![o].pc = "fallback", ![o].procs = Append(@, r)]
               /\ UNCHANGED <<chan, delivered>>
          ELSE LET outcome == run_db_query_first(r)
               IN  Finish(o, r, outcome.tag, outcome.payload)

\* A fallback that is tried again while it fails.
run_db_query_fallback_retry(o) ==
    /\ ops[o].kind = "run_db_query"
    /\ ops[o].pc = "fallback"
    /\ \E r \in OutputResults(db_cli_argv(o), StdoutSamples, {<<>>}, StderrSamples) :
          IF r.ok /\ ~r.success
          THEN /\ ops' = [ops EXCEPT ![o].procs = Append(@, r)]
               /\ UNCHANGED <<chan, delivered>>
          ELSE LET outcome == run_db_query_second(r)
               IN  Finish(o, r, outcome.tag, outcome.payload)

\* A fallback whose failure is reported with the first attempt's stderr.
run_db_query_fallback_first_error(o) ==
    /\ ops[o].kind = "run_db_query"
    /\ ops[o].pc = "fallback"
    /\ \E r \in OutputResults(db_cli_argv(o), StdoutSamples, {<<>>}, StderrSamples) :
          LET outcome == run_db_query_second(
                             IF r.ok /\ ~r.success
                             THEN [r EXCEPT !.stderr = ops[o].procs[1].stderr]
                             ELSE r)
          IN  Finish(o, r, outcome.tag, outcome.payload)

\* Fallback invocation (no user), then the send.
run_db_query_fallback(o) ==
    /\ ops[o].kind = "run_db_query"
    /\ ops[o].pc = "fallback"
    /\ \E r \in OutputResults(db_cli_argv(o), StdoutSamples, {<<>>}, StderrSamples) :
          LET outcome == run_db_query_second(r)
          IN  Finish(o, r, outcome.tag, outcome.payload)

\* ---------------------------------------------------- test_db_connection
test_command == "mysqladmin -u root ping"
test_db_connection_argv(o) == <<"lando", "ssh", "-s", ops[o].service, "-c", test_command>>

CannedSuccess == <<"Conexion exitosa">>

\* A probe judged by its exit status alone.
test_db_connection_outcome_status_only(r) ==
    IF r.ok
    THEN IF r.success
         THEN [tag |-> "DbQueryResult", payload |-> CannedSuccess]
         ELSE [tag |-> "Error",
               payload |-> Format("Error probando conexion: {}", <<FromUtf8Lossy(r.stderr)>>)]
    ELSE [tag |-> "Error",
          payload |-> Format("No se pudo ejecutar test de conexion: {}", <<r.oserr>>)]

test_db_connection_outcome(r) ==
    IF r.ok
    THEN IF r.success
         THEN IF Contains(FromUtf8Lossy(r.stdout), Alive)
              THEN [tag |-> "DbQueryResult", payload |-> CannedSuccess]
              ELSE [tag |-> "Error",
                    payload |-> Format("Error de conexion (salida inesperada): {}",
                                       <<FromUtf8Lossy(r.stdout)>>)]
         ELSE [tag |-> "Error",
               payload |-> Format("Error probando conexion: {}", <<FromUtf8Lossy(r.stderr)>>)]
    ELSE [tag |-> "Error",
          payload |-> Format("No se pudo ejecutar test de conexion: {}", <<r.oserr>>)]

test_db_connection(o) ==
    /\ Free(o)
    /\ \E p \in Paths, s \in Services :
          ops' = [ops EXCEPT ![o] = [Spawned("test_db_connection") EXCEPT
                                        !.path = p, !.service = s]]
    /\ UNCHANGED <<chan, delivered>>

test_db_connection_thread(o) ==
    /\ ops[o].kind = "test_db_connection"
    /\ ops[o].pc = "run"
    /\ \E r \in OutputResults(test_db_connection_argv(o), StdoutSamples, StdoutSamples, {<<"e", "r", "r">>}) :
          LET outcome == test_db_connection_outcome(r)
          IN  Finish(o, r, outcome.tag, outcome.payload)

\* ------------------------------- run_lando_command and run_shell_command
run_lando_command_argv(o) == <<"lando">> \o ops[o].command
run_shell_command_argv(o) == <<"lando", "ssh", "-s", ops[o].service, "-c">> \o ops[o].command

\* Display text of the io::Error of a failed child.wait().
WaitError == <<"ECHILD">>
\* What child.wait() may return.
WaitResults == {"success", "failure", "wait_error"}
\* Size of a non-empty read into the buffer: a single byte, or a read that
\* fills it.
ReadSizes == {1, BufferSize}

\* Error sent when the process cannot be spawned.
spawn_error(kind, e) ==
    IF kind = "run_lando_command"
    THEN Format("No se pudo ejecutar Lando: {}", <<e>>)
    ELSE Format("No se pudo ejecutar Lando ssh: {}", <<e>>)

\* The outcome sent after child.wait(), by what wait returned.
\* An outcome that reports a non-zero exit as success.
run_lando_command_outcome_ignores_status(command, st) ==
    IF st = "wait_error"
    THEN [tag |-> "Error",
          payload |-> Format("Error esperando el comando '{}': {}", <<command, WaitError>>)]
    ELSE [tag |-> "CommandSuccess",
          payload |-> Format("Comando '{}' finalizado con exito.", <<command>>)]

run_lando_command_outcome(command, st) ==
    IF st = "wait_error"
    THEN [tag |-> "Error",
          payload |-> Format("Error esperando el comando '{}': {}", <<command, WaitError>>)]
    ELSE IF st = "success"
    THEN [tag |-> "CommandSuccess",
          payload |-> Format("Comando '{}' finalizado con exito.", <<command>>)]
    ELSE [tag |-> "Error",
          payload |-> Format("El comando '{}' termino con un error.", <<command>>)]

run_shell_command_outcome(command, st) ==
    IF st = "wait_error"
    THEN [tag |-> "Error",
          payload |-> Format("Error esperando el comando ssh '{}': {}", <<command, WaitError>>)]
    ELSE IF st = "success"
    THEN [tag |-> "CommandSuccess",
          payload |-> Format("Comando shell '{}' finalizado con exito.", <<command>>)]
    ELSE [tag |-> "Error",
          payload |-> Format("El comando shell '{}' termino con un error.", <<command>>)]

stream_outcome(kind, command, st) ==
    IF kind = "run_lando_command"
    THEN run_lando_command_outcome(command, st)
    ELSE run_shell_command_outcome(command, st)

run_lando_command(o) ==
    /\ Free(o)
    /\ \E c \in LandoCommands, p \in Paths :
          ops' = [ops EXCEPT ![o] = [Spawned("run_lando_command") EXCEPT
                                        !.command = c, !.path = p]]
    /\ UNCHANGED <<chan, delivered>>

run_shell_command(o) ==
    /\ Free(o)
    /\ \E c \in ShellCommands, p \in Paths, s \in Services :
          ops' = [ops EXCEPT ![o] = [Spawned("run_shell_command") EXCEPT
                                        !.command = c, !.path = p, !.service = s]]
    /\ UNCHANGED <<chan, delivered>>

stream_argv(o) ==
    IF ops[o].kind = "run_lando_command"
    THEN run_lando_command_argv(o)
    ELSE run_shell_command_argv(o)

\* Command::spawn() with both streams piped.  On Err the worker sends Error and
\* returns; on Ok it starts the two pump threads and goes on to the joins.
stream_spawn(o) ==
    /\ ops[o].kind \in StreamKinds
    /\ ops[o].pc = "run"
    /\ \/ \E r \in SpawnFailures(stream_argv(o)) :
             Finish(o, r, "Error", spawn_error(ops[o].kind, r.oserr))
       \/ /\ ops' = [ops EXCEPT
                        ![o].pc = "join_stdout",
                        ![o].procs = Append(@, [argv |-> stream_argv(o), ok |-> TRUE,
                                                oserr |-> <<>>, success |-> FALSE,
                                                stdout |-> <<>>, stderr |-> <<>>]),
                        ![o].out = [pc |-> "reading", n |-> 0],
                        ![o].err = [pc |-> "reading", n |-> 0]]
          /\ UNCHANGED <<chan, delivered>>

\* The non-empty reads of the pumps so far.
RECURSIVE SumChunks(_)
SumChunks(S) ==
    IF S = {} THEN 0
    ELSE LET o == CHOOSE x \in S : TRUE
         IN  ops[o].out.n + ops[o].err.n + SumChunks(S \ {o})
ChunksRead == SumChunks(DOMAIN ops)

\* A stdout loop without `if n == 0 { break; }`: it goes on reading at the
\* end of the stream.
stdout_thread_no_break(o) ==
    /\ ops[o].out.pc = "reading"
    /\ ChunksRead < MaxChunks
    /\ \E size \in ReadSizes :
          Send(LogMsg(o, "stdout", ops[o].out.n + 1, size))
    /\ ops' = [ops EXCEPT ![o].out.n = @ + 1]
    /\ UNCHANGED delivered

\* A stdout loop without `if n == 0 { break; }` before the send: the empty
\* read is forwarded, then the loop ends.
stdout_thread_forwards_empty(o) ==
    /\ ops[o].out.pc = "reading"
    /\ \/ /\ ChunksRead < MaxChunks
          /\ \E size \in ReadSizes :
                Send(LogMsg(o, "stdout", ops[o].out.n + 1, size))
          /\ ops' = [ops EXCEPT ![o].out.n = @ + 1]
          /\ UNCHANGED delivered
       \/ /\ ops' = [ops EXCEPT ![o].out.pc = "done"]
          /\ Send(LogMsg(o, "stdout", ops[o].out.n + 1, 0))
          /\ UNCHANGED delivered

\* One iteration of `while let Ok(n) = reader.read(&mut buffer)` of the stdout
\* pump: a non-empty read is forwarded, an empty read or a read error ends
\* the pump.
stdout_thread(o) ==
    /\ ops[o].out.pc = "reading"
    /\ \/ /\ ChunksRead < MaxChunks
          /\ \E size \in ReadSizes :
                Send(LogMsg(o, "stdout", ops[o].out.n + 1, size))
          /\ ops' = [ops EXCEPT ![o].out.n = @ + 1]
          /\ UNCHANGED delivered
       \/ /\ ops' = [ops EXCEPT ![o].out.pc = "done"]
          /\ UNCHANGED <<chan, delivered>>

\* A stderr loop that starts only when the stdout pump has ended.
stderr_thread_after_stdout(o) ==
    /\ ops[o].err.pc = "reading"
    /\ ops[o].out.pc = "done"
    /\ \/ /\ ChunksRead < MaxChunks
          /\ \E size \in ReadSizes :
                Send(LogMsg(o, "stderr", ops[o].err.n + 1, size))
          /\ ops' = [ops EXCEPT ![o].err.n = @ + 1]
          /\ UNCHANGED delivered
       \/ /\ ops' = [ops EXCEPT ![o].err.pc = "done"]
          /\ UNCHANGED <<chan, delivered>>

\* The same loop on stderr.
stderr_thread(o) ==
    /\ ops[o].err.pc = "reading"
    /\ \/ /\ ChunksRead < MaxChunks
          /\ \E size \in ReadSizes :
                Send(LogMsg(o, "stderr", ops[o].err.n + 1, size))
          /\ ops' = [ops EXCEPT ![o].err.n = @ + 1]
          /\ UNCHANGED delivered
       \/ /\ ops' = [ops EXCEPT ![o].err.pc = "done"]
          /\ UNCHANGED <<chan, delivered>>

\* A stdout pump that reports a failed read as an Error outcome.
stdout_read_error_reports(o) ==
    /\ ops[o].out.pc = "reading"
    /\ ops' = [ops EXCEPT ![o].out.pc = "done"]
    /\ unread' = unread \cup {<<o, "stdout">>}
    /\ Send(Msg(o, "Error", Format("Error leyendo stdout: {}", <<<<"EIO">>>>)))
    /\ UNCHANGED <<delivered, gui>>

\* `while let Ok(n)` of the stdout pump ends on Err(_): the read failed, the
\* pump returns and what the process writes to the stream from then on is
\* never read.
stdout_read_error(o) ==
    /\ ops[o].out.pc = "reading"
    /\ ops' = [ops EXCEPT ![o].out.pc = "done"]
    /\ unread' = unread \cup {<<o, "stdout">>}
    /\ UNCHANGED <<chan, delivered, gui>>

\* The same on stderr.
stderr_read_error(o) ==
    /\ ops[o].err.pc = "reading"
    /\ ops' = [ops EXCEPT ![o].err.pc = "done"]
    /\ unread' = unread \cup {<<o, "stderr">>}
    /\ UNCHANGED <<chan, delivered, gui>>

\* A worker that does not join the stdout pump.
StdoutJoined_NoJoin(o) == TRUE
\* A worker that does not join the stderr pump.
StderrJoined_NoJoin(o) == TRUE

\* stdout_thread.join() returns once the stdout pump has ended.
StdoutJoined(o) == ops[o].out.pc = "done"
\* stderr_thread.join() returns once the stderr pump has ended.
StderrJoined(o) == ops[o].err.pc = "done"

join_stdout(o) ==
    /\ ops[o].pc = "join_stdout"
    /\ StdoutJoined(o)
    /\ ops' = [ops EXCEPT ![o].pc = "join_stderr"]
    /\ UNCHANGED <<chan, delivered>>

join_stderr(o) ==
    /\ ops[o].pc = "join_stderr"
    /\ StderrJoined(o)
    /\ ops' = [ops EXCEPT ![o].pc = "wait"]
    /\ UNCHANGED <<chan, delivered>>

\* child.wait() returns.
child_wait(o) ==
    /\ ops[o].pc = "wait"
    /\ \E st \in WaitResults : ops' = [ops EXCEPT ![o].pc = "send", ![o].status = st]
    /\ UNCHANGED <<chan, delivered>>

\* The worker sends the terminal outcome (or the wait error) and ends.
send_outcome(o) ==
    /\ ops[o].pc = "send"
    /\ LET outcome == stream_outcome(ops[o].kind, ops[o].command, ops[o].status)
       IN  Send(Msg(o, outcome.tag, outcome.payload))
    /\ ops' = [ops EXCEPT ![o].pc = "done"]
    /\ UNCHANGED delivered

\* ------------------------------------------------------ scan_for_projects
\* WalkDir::new(path_to_scan).max_depth(3)
max_depth == 3
\* Depth of the deepest directory of the scanned tree (the root is at 0).
TreeDepth == 4
Dirs == 0..TreeDepth
\* The scanned tree is a chain root/d1/d2/...; a sample says which of its
\* directories hold a .lando.yml and which cannot be read (their listing is an
\* Err entry of the walk).
Trees ==
    { [manifests |-> {}, unreadable |-> {}],
      [manifests |-> Dirs, unreadable |-> {}],
      [manifests |-> {1, 2}, unreadable |-> {2}],
      [manifests |-> {0, 3}, unreadable |-> {}] }
\* Whether a directory's listing gives the manifest before the sub-directory.
Orders == [0..(max_depth - 1) -> BOOLEAN]

\* The path of the directory at depth k below the root.
RECURSIVE DirPath(_, _)
DirPath(root, k) == IF k = 0 THEN root ELSE Append(DirPath(root, k - 1), "d")

\* A walk that lists the directories down to depth max_depth included.
RECURSIVE Walk_lists_max_depth(_, _, _, _)
Walk_lists_max_depth(tree, order, root, k) ==
    IF k > max_depth \/ k \in tree.unreadable
    THEN <<>>
    ELSE LET here == IF k \in tree.manifests THEN <<DirPath(root, k)>> ELSE <<>>
             below == IF k < TreeDepth
                      THEN Walk_lists_max_depth(tree, order, root, k + 1) ELSE <<>>
         IN  IF k < max_depth /\ order[k] THEN here \o below ELSE below \o here

\* The projects pushed while the walk is in directory k (entry depth k) and
\* below: the walk lists a directory only at depth < max_depth, skips a listing
\* that fails, and pushes the parent of each .lando.yml entry it yields.
RECURSIVE Walk(_, _, _, _)
Walk(tree, order, root, k) ==
    IF k >= max_depth \/ k \in tree.unreadable
    THEN <<>>
    ELSE LET here == IF k \in tree.manifests THEN <<DirPath(root, k)>> ELSE <<>>
             below == IF k < TreeDepth THEN Walk(tree, order, root, k + 1) ELSE <<>>
         IN  IF order[k] THEN here \o below ELSE below \o here

\* The folders the user may pick: the second lies inside the first.
ScanRoots == {<<"r">>, <<"r", "d">>}

scan_for_projects(o) ==
    /\ Free(o)
    /\ \E p \in ScanRoots : ops' = [ops EXCEPT ![o] = [Spawned("scan_for_projects") EXCEPT !.path = p]]
    /\ UNCHANGED <<chan, delivered>>

\* A scan that gives up with an Error at the first entry it cannot read.
scan_for_projects_thread_aborts(o) ==
    /\ ops[o].kind = "scan_for_projects"
    /\ ops[o].pc = "run"
    /\ \E tree \in Trees, order \in Orders :
          /\ ops' = [ops EXCEPT ![o].pc = "done", ![o].walk = <<tree>>]
          /\ IF tree.unreadable = {}
             THEN Send(Msg(o, "Projects", Walk(tree, order, ops[o].path, 0)))
             ELSE Send(Msg(o, "Error", Format("walk: {}", <<<<"EACCES">>>>)))
    /\ UNCHANGED delivered

scan_for_projects_thread(o) ==
    /\ ops[o].kind = "scan_for_projects"
    /\ ops[o].pc = "run"
    /\ \E tree \in Trees, order \in Orders :
          /\ ops' = [ops EXCEPT ![o].pc = "done", ![o].walk = <<tree>>]
          /\ Send(Msg(o, "Projects", Walk(tree, order, ops[o].path, 0)))
    /\ UNCHANGED delivered

\* ------------------------------------------------------------- DatabaseUI
\* The specialised view of one database service (ui/database.rs,
\* core/database.rs).  Of its fields the model keeps those the query editor,
\* the history panel and the connection test read and write; the tables
\* parsed from a listing, the table browser and the display settings are
\* left out.  A QueryResult keeps its query, its result text and has_error,
\* and `op`, a note of the operation dispatched by the call that pushed the
\* entry (0 when the pushing call dispatched none), which is no field of the
\* struct; the timestamp, the execution time and rows_affected are left out.

\* if self.query_results.len() > 20
MaxResults == 20
\* if self.query_history.len() > 50
MaxHistory == 50

\* Query texts: the i-th statement a user may type; " " is a text of white
\* space.
Text(i) == "SELECT " \o ToString(i)
\* str::trim, on these texts
trim(s) == IF s = " " THEN "" ELSE s
\* format!("EXPLAIN {}", self.query_input.trim())
Explain(s) == "EXPLAIN " \o trim(s)

\* enum ConnectionStatus
Disconnected == [tag |-> "Disconnected", msg |-> <<>>]
Testing == [tag |-> "Testing", msg |-> <<>>]
Connected == [tag |-> "Connected", msg |-> <<>>]
StatusError(msg) == [tag |-> "Error", msg |-> <<msg>>]

\* impl Default for DatabaseUI
DatabaseUI_default ==
    [query_input |-> "", query_results |-> <<>>, current_result_index |-> 0,
     query_history |-> <<>>, connection_status |-> Disconnected]

\* The placeholder entry a dispatching call pushes.
Placeholder(query, text, o) ==
    [query |-> query, result |-> <<text>>, has_error |-> FALSE, op |-> o]

\* self.query_results.push(result); self.current_result_index = len - 1
push_result(d, e) ==
    [d EXCEPT !.query_results = Append(@, e),
              !.current_result_index = Len(d.query_results)]

\* A history that records a query each time it is executed.
push_history_every_time(h, q) ==
    LET h1 == Append(h, q)
    IN  IF Len(h1) > MaxHistory THEN Tail(h1) ELSE h1

\* execute_query: "Agregar al historial si no existe", "Mantener solo los
\* ultimos 50 queries".
push_history(h, q) ==
    IF \E i \in DOMAIN h : h[i] = q
    THEN h
    ELSE LET h1 == Append(h, q)
         IN  IF Len(h1) > MaxHistory THEN Tail(h1) ELSE h1

\* DatabaseUI::update_query_result: the result is written into the last entry
\* (or pushed as a new entry when there is none), then one entry is removed
\* when more than 20 are stored.
update_query_result(d, result_text, has_error) ==
    LET n == Len(d.query_results)
        written ==
            IF n > 0
            THEN [d EXCEPT !.query_results[n] =
                               [@ EXCEPT !.result = result_text, !.has_error = has_error]]
            ELSE [d EXCEPT !.query_results =
                               <<[query |-> d.query_input, result |-> result_text,
                                  has_error |-> has_error, op |-> 0]>>,
                           !.current_result_index = 0]
    IN  IF Len(written.query_results) > MaxResults
        THEN [written EXCEPT !.query_results = Tail(@),
                             !.current_result_index = IF @ > 0 THEN @ - 1 ELSE @]
        ELSE written

\* DatabaseUI::process_query_result
process_query_result(d, result_text, has_error) ==
    [update_query_result(d, result_text, has_error) EXCEPT
        !.connection_status =
            IF has_error
            THEN StatusError(Format("Error en la consulta: {}", <<result_text>>))
            ELSE Connected]

\* impl Default for ServiceUIManager: no specialised view.
ServiceUIManager_default == [k \in {} |-> DatabaseUI_default]

\* What `for database_ui in self.service_ui_manager.take().database_uis
\* .values_mut() { database_ui.process_query_result(..) }` works on: the views
\* RefCell::take moved out of the manager, each with the outcome processed.
\* The value is a temporary, dropped at the end of the statement.
Taken(g, result_text, has_error) ==
    [k \in DOMAIN g.database_uis |->
        process_query_result(g.database_uis[k], result_text, has_error)]

\* ------------------------------------------------------------ the consumer
\* self.receiver.try_recv(): takes the oldest message, if there is one.
try_recv ==
    /\ chan # <<>>
    /\ delivered' = Append(delivered, Head(chan))
    /\ chan' = Tail(chan)
    /\ UNCHANGED ops

\* Ord for PathBuf compares the paths component by component; ComponentOrder
\* lists the component names used here in their byte order.
ComponentOrder == <<"a", "d", "r">>
Rank(c) == CHOOSE i \in DOMAIN ComponentOrder : ComponentOrder[i] = c
RECURSIVE PathLess(_, _)
PathLess(p, q) ==
    IF p = <<>> THEN q # <<>>
    ELSE IF q = <<>> THEN FALSE
    ELSE IF Head(p) = Head(q) THEN PathLess(Tail(p), Tail(q))
    ELSE Rank(Head(p)) < Rank(Head(q))

\* Vec::extend
extend(v, w) == v \o w

\* Vec::sort (stable): each element is put behind the elements not greater.
RECURSIVE Insert(_, _)
Insert(v, p) ==
    IF v = <<>> THEN <<p>>
    ELSE IF PathLess(p, v[Len(v)]) THEN Append(Insert(SubSeq(v, 1, Len(v) - 1), p), v[Len(v)])
    ELSE Append(v, p)
RECURSIVE sort(_)
sort(v) == IF v = <<>> THEN <<>> ELSE Insert(sort(SubSeq(v, 1, Len(v) - 1)), v[Len(v)])

\* A dedup that keeps every element.
dedup_keeps_all(v) == v

\* Vec::dedup: drops each element equal to the one before it.
RECURSIVE dedup(_)
dedup(v) ==
    IF Len(v) <= 1 THEN v
    ELSE LET d == dedup(SubSeq(v, 1, Len(v) - 1))
         IN  IF d[Len(d)] = v[Len(v)] THEN d ELSE Append(d, v[Len(v)])

\* handle_db_query_result: the result is shown, and the specialised views are
\* taken out of the manager (which RefCell::take leaves at its default) to
\* process it.
handle_db_query_result(g, result) ==
    [g EXCEPT !.db_query_result = Some(result),
              !.database_uis = ServiceUIManager_default]

\* A handler that shows the error only where query results are shown.
handle_error_message_result_only(g, msg) ==
    [g EXCEPT !.db_query_result = Some(msg)]

\* Whether handle_error_message takes an Error for the error of a query.
ErrorOfQuery(g) == g.db_query_result # None \/ g.db_query_input # <<>>

\* handle_error_message: the error of a query is shown as the query result as
\* well and handed to the specialised views, taken out of the manager as in
\* handle_db_query_result.
handle_error_message(g, msg) ==
    IF ErrorOfQuery(g)
    THEN [g EXCEPT !.error_message = Some(msg), !.db_query_result = Some(msg),
                   !.database_uis = ServiceUIManager_default]
    ELSE [g EXCEPT !.error_message = Some(msg)]

\* handle_log_output: String::try_from(bytes).unwrap() panics when the chunk
\* is no valid UTF-8 (`decodes` is FALSE), which ends the UI thread.
handle_log_output(g, output, decodes) ==
    IF decodes
    THEN [g EXCEPT !.log_buffer = Append(@, output), !.show_terminal_popup = TRUE]
    ELSE [g EXCEPT !.running = FALSE]

\* A body of the poll that leaves error_message and success_message as they
\* are before it applies the outcome.
Consumed_keeps_messages(g, m, decodes) ==
    LET g0 == [g EXCEPT !.is_loading = FALSE]
    IN  CASE m.tag = "List" -> [g0 EXCEPT !.apps = m.payload]
          [] m.tag = "Projects" ->
                [g0 EXCEPT !.projects = dedup(sort(extend(@, m.payload)))]
          [] m.tag = "Info" -> [g0 EXCEPT !.services = m.payload]
          [] m.tag = "DbQueryResult" -> handle_db_query_result(g0, m.payload)
          [] m.tag = "Error" -> handle_error_message(g0, m.payload)
          [] m.tag = "CommandSuccess" -> [g0 EXCEPT !.success_message = Some(m.payload)]
          [] m.tag = "FinishedLoading" -> g0
          [] m.tag = "LogOutput" -> handle_log_output(g0, m.payload, decodes)

\* The body of `if let Ok(outcome) = self.receiver.try_recv()`.
Consumed(g, m, decodes) ==
    LET g0 == [g EXCEPT !.is_loading = FALSE, !.error_message = None,
                        !.success_message = None]
    IN  CASE m.tag = "List" -> [g0 EXCEPT !.apps = m.payload]
          [] m.tag = "Projects" ->
                [g0 EXCEPT !.projects = dedup(sort(extend(@, m.payload)))]
          [] m.tag = "Info" -> [g0 EXCEPT !.services = m.payload]
          [] m.tag = "DbQueryResult" -> handle_db_query_result(g0, m.payload)
          [] m.tag = "Error" -> handle_error_message(g0, m.payload)
          [] m.tag = "CommandSuccess" -> [g0 EXCEPT !.success_message = Some(m.payload)]
          [] m.tag = "FinishedLoading" -> g0
          [] m.tag = "LogOutput" -> handle_log_output(g0, m.payload, decodes)

\* Whether the bytes of a message the consumer takes are valid UTF-8: only the
\* chunks of a stream can fail to be.
Decodes(m) == IF m.tag = "LogOutput" THEN BOOLEAN ELSE {TRUE}

\* A poll that is made only while the loading indicator is shown.
handle_receiver_messages_while_loading ==
    /\ ui.running
    /\ ui.is_loading
    /\ try_recv
    /\ \E decodes \in Decodes(Head(chan)) : ui' = Consumed(ui, Head(chan), decodes)
    /\ UNCHANGED <<cleared_at, unread>>

\* A poll that waits for a message (Receiver::recv).
handle_receiver_messages_recv ==
    /\ ui.running
    /\ try_recv
    /\ \E decodes \in Decodes(Head(chan)) : ui' = Consumed(ui, Head(chan), decodes)
    /\ UNCHANGED <<cleared_at, unread>>

\* A poll that takes every queued message in one frame.
handle_receiver_messages_drain ==
    /\ ui.running
    /\ \/ /\ chan # <<>>
          /\ delivered' = delivered \o chan
          /\ chan' = <<>>
          /\ ui' = Consumed(ui, chan[Len(chan)], TRUE)
          /\ UNCHANGED <<ops, cleared_at, unread>>
       \/ /\ chan = <<>>
          /\ UNCHANGED vars

\* LandoGui::handle_receiver_messages, the poll step of one frame: one
\* try_recv, and the outcome it returns, if any, is applied.
handle_receiver_messages ==
    /\ ui.running
    /\ \/ /\ try_recv
          /\ \E decodes \in Decodes(Head(chan)) : ui' = Consumed(ui, Head(chan), decodes)
          /\ UNCHANGED <<cleared_at, unread>>
       \/ /\ chan = <<>>
          /\ UNCHANGED vars

\* The "Buscar Proyectos" button: refused while is_loading, otherwise it sets
\* is_loading and starts the thread that opens the folder dialog.
render_project_search_section(o) ==
    /\ ui.running
    /\ ~ui.is_loading
    /\ Free(o)
    /\ ui' = [ui EXCEPT !.is_loading = TRUE]
    /\ ops' = [ops EXCEPT ![o] = Spawned("pick_folder")]
    /\ UNCHANGED <<chan, delivered, cleared_at, unread>>

\* The dialog thread: a chosen folder is handed to scan_for_projects, a
\* cancelled dialog sends FinishedLoading.
pick_folder_thread(o) ==
    /\ ops[o].kind = "pick_folder"
    /\ ops[o].pc = "run"
    /\ \/ /\ \E p \in ScanRoots :
                ops' = [ops EXCEPT ![o] = [Spawned("scan_for_projects") EXCEPT !.path = p]]
          /\ UNCHANGED <<chan, delivered>>
       \/ /\ ops' = [ops EXCEPT ![o].pc = "done"]
          /\ Send(Msg(o, "FinishedLoading", <<>>))
          /\ UNCHANGED delivered

\* LandoGui::clear_projects_list
clear_projects_list ==
    /\ ui.running
    /\ ui' = IF ui.selected_project_path # None
             THEN [ui EXCEPT !.projects = <<>>, !.selected_project_path = None,
                             !.services = <<>>]
             ELSE [ui EXCEPT !.projects = <<>>]
    /\ cleared_at' = Len(delivered)
    /\ UNCHANGED <<ops, chan, delivered, unread>>

\* ------------------------------------------------- the controls of the UI
\* The project the central panel shows.
HasSelection == ui.selected_project_path # None
Selected == ui.selected_project_path[1]

\* The worker get_project_info(sender, path) starts.
get_project_info_at(path) == [Spawned("get_project_info") EXCEPT !.path = path]

\* The sender of a message the UI thread puts on the channel itself: no
\* operation.
UiThread == MaxOps + 1
UiMsg(tag, payload) == [op |-> UiThread, tag |-> tag, payload |-> payload, src |-> "ui"]

\* The items of the sample documents that stand for a database service
\* (is_database_service, or type "database").
DatabaseItems == {"site1"}
\* get_database_services
get_database_services(g) == SelectSeq(g.services, LAMBDA x : x \in DatabaseItems)

\* "Refrescar Todo": refused while is_loading; lists the apps and, when a
\* project is selected, asks for its services as well.
refresh_all(o) ==
    /\ ui.running
    /\ ~ui.is_loading
    /\ Free(o)
    /\ ui' = [ui EXCEPT !.is_loading = TRUE]
    /\ IF HasSelection
       THEN /\ o + 1 \in OpIds
            /\ ops' = [ops EXCEPT ![o] = Spawned("list_apps"),
                                  ![o + 1] = get_project_info_at(Selected)]
       ELSE ops' = [ops EXCEPT ![o] = Spawned("list_apps")]
    /\ UNCHANGED <<chan, delivered, cleared_at, unread>>

\* A Home button that stops the refresh in flight.
navigate_home_cancels ==
    /\ ui.running
    /\ ui' = [ui EXCEPT !.selected_project_path = None, !.services = <<>>,
                        !.db_query_result = None, !.error_message = None,
                        !.success_message = None]
    /\ ops' = [o \in DOMAIN ops |->
                  IF ops[o].kind = "get_project_info" /\ ops[o].pc = "run"
                  THEN [ops[o] EXCEPT !.pc = "done"]
                  ELSE ops[o]]
    /\ UNCHANGED <<chan, delivered, cleared_at, unread>>

\* "Home"
navigate_home ==
    /\ ui.running
    /\ ui' = [ui EXCEPT !.selected_project_path = None, !.services = <<>>,
                        !.db_query_result = None, !.error_message = None,
                        !.success_message = None]
    /\ UNCHANGED <<ops, chan, delivered, cleared_at, unread>>

\* A click on a project of the list other than the selected one
\* (render_projects_list, handle_project_selection_change): not refused while
\* is_loading.
render_projects_list(o) ==
    /\ ui.running
    /\ Free(o)
    /\ \E i \in DOMAIN ui.projects :
          /\ Some(ui.projects[i]) # ui.selected_project_path
          /\ ui' = [ui EXCEPT !.selected_project_path = Some(ui.projects[i]),
                              !.is_loading = TRUE, !.services = <<>>,
                              !.db_query_input = <<>>, !.db_query_result = None]
          /\ ops' = [ops EXCEPT ![o] = get_project_info_at(ui.projects[i])]
    /\ UNCHANGED <<chan, delivered, cleared_at, unread>>

\* The lifecycle buttons, disabled while is_loading.
render_lando_controls(o) ==
    /\ ui.running
    /\ HasSelection
    /\ ~ui.is_loading
    /\ Free(o)
    /\ ui' = [ui EXCEPT !.is_loading = TRUE]
    /\ \E c \in LandoCommands :
          ops' = [ops EXCEPT ![o] = [Spawned("run_lando_command") EXCEPT
                                        !.command = c, !.path = Selected]]
    /\ UNCHANGED <<chan, delivered, cleared_at, unread>>

\* The refresh button of the database services group: refused while
\* is_loading; the UI thread sends CommandSuccess("refresh") itself, then
\* asks for the services; is_loading is not set.
render_database_services_interface(o) ==
    /\ ui.running
    /\ HasSelection
    /\ get_database_services(ui) # <<>>
    /\ ~ui.is_loading
    /\ Free(o)
    /\ Send(UiMsg("CommandSuccess", <<"refresh">>))
    /\ ops' = [ops EXCEPT ![o] = get_project_info_at(Selected)]
    /\ UNCHANGED <<delivered, ui, cleared_at, unread>>

\* The refresh button of the services group, refused while is_loading.
render_services_section(o) ==
    /\ ui.running
    /\ HasSelection
    /\ ~ui.is_loading
    /\ Free(o)
    /\ ui' = [ui EXCEPT !.is_loading = TRUE]
    /\ ops' = [ops EXCEPT ![o] = get_project_info_at(Selected)]
    /\ UNCHANGED <<chan, delivered, cleared_at, unread>>

\* "Intentar recargar", shown when no service is listed and nothing loads.
render_no_services_message(o) ==
    /\ ui.running
    /\ HasSelection
    /\ ui.services = <<>>
    /\ ~ui.is_loading
    /\ Free(o)
    /\ ui' = [ui EXCEPT !.is_loading = TRUE]
    /\ ops' = [ops EXCEPT ![o] = get_project_info_at(Selected)]
    /\ UNCHANGED <<chan, delivered, cleared_at, unread>>

\* ---------------------------------------------- the controls of DatabaseUI
\* The workers run_db_query(sender, path, service, query) and
\* test_db_connection(sender, path, service) start.
run_db_query_at(path, service, query) ==
    [Spawned("run_db_query") EXCEPT !.path = path, !.service = service, !.query = query]
test_db_connection_at(path, service) ==
    [Spawned("test_db_connection") EXCEPT !.path = path, !.service = service]

\* The view of database service k is drawn: a project is selected and its
\* services list k as a database service.
Shown(k) ==
    /\ ui.running
    /\ HasSelection
    /\ \E i \in DOMAIN get_database_services(ui) : get_database_services(ui)[i] = k

\* ServiceUIManager::show_service_details, called for every listed service in
\* every frame: the first call for a service creates its view
\* (entry(service_key).or_insert_with(DatabaseUI::default)).
show_service_details(k) ==
    /\ Shown(k)
    /\ k \notin DOMAIN ui.database_uis
    /\ ui' = [ui EXCEPT !.database_uis = @ @@ (k :> DatabaseUI_default)]
    /\ UNCHANGED <<ops, chan, delivered, cleared_at, unread>>

\* What the user types into the query editor: white space, or a statement.
QueryInputs == {" ", Text(0)}

\* The query editor (TextEdit::multiline(&mut self.query_input)).
show_query_editor(k) ==
    /\ Shown(k)
    /\ k \in DOMAIN ui.database_uis
    /\ \E q \in QueryInputs :
          /\ q # ui.database_uis[k].query_input
          /\ ui' = [ui EXCEPT !.database_uis[k].query_input = q]
    /\ UNCHANGED <<ops, chan, delivered, cleared_at, unread>>

\* The body of execute_query for a query_input that is not blank: the query
\* goes to the history, a placeholder result is pushed for operation o.
Executed(d, o) ==
    push_result([d EXCEPT !.query_history = push_history(@, d.query_input)],
                Placeholder(d.query_input, "Ejecutando consulta...", o))

\* DatabaseUI::execute_query, from the button "Ejecutar Query" (enabled while
\* nothing loads), from F9 / Ctrl+Enter in the editor and from the history
\* panel (neither looks at is_loading).  `*is_loading = true` writes the
\* copy the caller passed (&mut self.is_loading.get()), not the indicator.
execute_query(k, o) ==
    /\ Shown(k)
    /\ k \in DOMAIN ui.database_uis
    /\ Free(o)
    /\ LET d == ui.database_uis[k]
       IN  /\ trim(d.query_input) # ""
           /\ ui' = [ui EXCEPT !.database_uis[k] = Executed(d, o)]
           /\ ops' = [ops EXCEPT ![o] = run_db_query_at(Selected, k, d.query_input)]
    /\ UNCHANGED <<chan, delivered, cleared_at, unread>>

\* DatabaseUI::explain_query ("Explicar", never disabled): execute_query with
\* the query prefixed, then the editor's text is restored.
explain_query(k, o) ==
    /\ Shown(k)
    /\ k \in DOMAIN ui.database_uis
    /\ Free(o)
    /\ LET d == ui.database_uis[k]
           e == [d EXCEPT !.query_input = Explain(d.query_input)]
       IN  /\ trim(d.query_input) # ""
           /\ ui' = [ui EXCEPT !.database_uis[k] =
                                  [Executed(e, o) EXCEPT !.query_input = d.query_input]]
           /\ ops' = [ops EXCEPT ![o] = run_db_query_at(Selected, k, e.query_input)]
    /\ UNCHANGED <<chan, delivered, cleared_at, unread>>

\* get_show_tables_query, for a MySQL service
get_show_tables_query == "SHOW TABLES;"

\* DatabaseUI::refresh_schema ("Ver Tablas", "Actualizar"), refused while
\* is_loading: a placeholder result, and the query that lists the tables.
refresh_schema(k, o) ==
    /\ Shown(k)
    /\ k \in DOMAIN ui.database_uis
    /\ ~ui.is_loading
    /\ Free(o)
    /\ ui' = [ui EXCEPT !.database_uis[k] =
                            push_result(@, Placeholder("Schema refresh", "Cargando schema...", o))]
    /\ ops' = [ops EXCEPT ![o] = run_db_query_at(Selected, k, get_show_tables_query)]
    /\ UNCHANGED <<chan, delivered, cleared_at, unread>>

\* DatabaseUI::test_connection, refused while is_loading.
test_connection(k, o) ==
    /\ Shown(k)
    /\ k \in DOMAIN ui.database_uis
    /\ ~ui.is_loading
    /\ Free(o)
    /\ ui' = [ui EXCEPT !.database_uis[k].connection_status = Testing]
    /\ ops' = [ops EXCEPT ![o] = test_db_connection_at(Selected, k)]
    /\ UNCHANGED <<chan, delivered, cleared_at, unread>>

\* DatabaseUI::optimize_database, refused while is_loading: a maintenance
\* statement is run as a query and no placeholder is pushed
\* (repair_database and analyze_database do the same with other statements).
optimize_database(k, o) ==
    /\ Shown(k)
    /\ k \in DOMAIN ui.database_uis
    /\ ~ui.is_loading
    /\ Free(o)
    /\ ops' = [ops EXCEPT ![o] = run_db_query_at(Selected, k, "OPTIMIZE TABLE;")]
    /\ UNCHANGED <<chan, delivered, ui, cleared_at, unread>>

\* "Limpiar" of the history panel
show_query_history_panel(k) ==
    /\ Shown(k)
    /\ k \in DOMAIN ui.database_uis
    /\ ui' = [ui EXCEPT !.database_uis[k].query_history = <<>>,
                        !.database_uis[k].query_results = <<>>]
    /\ UNCHANGED <<ops, chan, delivered, cleared_at, unread>>

\* ------------------------------------------------------ the specification
Dispatch(o) ==
    \/ list_apps(o)
    \/ get_project_info(o)
    \/ run_lando_command(o)
    \/ run_shell_command(o)
    \/ run_db_query(o)
    \/ test_db_connection(o)
    \/ scan_for_projects(o)

Worker(o) ==
    \/ list_apps_thread(o)
    \/ get_project_info_thread(o)
    \/ run_db_query_thread(o)
    \/ run_db_query_fallback(o)
    \/ test_db_connection_thread(o)
    \/ scan_for_projects_thread(o)
    \/ stream_spawn(o)
    \/ stdout_thread(o)
    \/ stderr_thread(o)
    \/ join_stdout(o)
    \/ join_stderr(o)
    \/ child_wait(o)
    \/ send_outcome(o)

Next ==
    \/ \E o \in OpIds : Dispatch(o) /\ UNCHANGED aside
    \/ \E o \in OpIds : Worker(o) /\ UNCHANGED aside
    \/ try_recv /\ UNCHANGED aside

Spec == Init /\ [][Next]_vars

\* The operations that capture the output of one process (or two) and report
\* once, without the streaming commands and the scanner: the operations share
\* nothing but the channel, so what holds of these alone holds of them among
\* the others.
DispatchOutput(o) ==
    \/ list_apps(o)
    \/ get_project_info(o)
    \/ run_db_query(o)
    \/ test_db_connection(o)

WorkerOutput(o) ==
    \/ list_apps_thread(o)
    \/ get_project_info_thread(o)
    \/ run_db_query_thread(o)
    \/ run_db_query_fallback(o)
    \/ test_db_connection_thread(o)

NextOutput ==
    \/ \E o \in OpIds : DispatchOutput(o) /\ UNCHANGED aside
    \/ \E o \in OpIds : WorkerOutput(o) /\ UNCHANGED aside
    \/ try_recv /\ UNCHANGED aside

SpecOutput == Init /\ [][NextOutput]_vars

\* The state LandoGui::new leaves: the listing it dispatched is in flight.
InitGui ==
    /\ ops = [o \in Slots |-> IF o = 0 THEN Spawned("list_apps") ELSE Idle]
    /\ chan = <<>>
    /\ delivered = <<>>
    /\ ui = NewGui
    /\ cleared_at = 0
    /\ unread = {}

\* The project search of the side panel: the frames of the consumer, the
\* search and clear buttons, the dialog and scanner threads, and the listing
\* of the constructor.
NextScan ==
    \/ handle_receiver_messages
    \/ \E o \in OpIds : render_project_search_section(o)
    \/ clear_projects_list
    \/ \E o \in OpIds : pick_folder_thread(o) /\ UNCHANGED aside
    \/ \E o \in OpIds : scan_for_projects_thread(o) /\ UNCHANGED aside
    \/ list_apps_thread(0) /\ UNCHANGED aside

SpecScan == InitGui /\ [][NextScan]_vars

\* The streaming commands with the frames of the consumer: the worker of a
\* command, its two pumps, and the poll step that takes and applies what they
\* send.
DispatchStream(o) ==
    \/ run_lando_command(o)
    \/ run_shell_command(o)

WorkerStream(o) ==
    \/ stream_spawn(o)
    \/ stdout_thread(o)
    \/ stderr_thread(o)
    \/ join_stdout(o)
    \/ join_stderr(o)
    \/ child_wait(o)
    \/ send_outcome(o)

NextStream ==
    \/ \E o \in OpIds : DispatchStream(o) /\ UNCHANGED aside
    \/ \E o \in OpIds : WorkerStream(o) /\ UNCHANGED aside
    \/ handle_receiver_messages

SpecStream == Init /\ [][NextStream]_vars

\* One operation of any kind, its threads and the frames; here a failed read
\* of a pump is a step of its own, which notes the stream as left unread.
NextOperation ==
    \/ Dispatch(1) /\ UNCHANGED aside
    \/ Worker(1) /\ UNCHANGED aside
    \/ stdout_read_error(1)
    \/ stderr_read_error(1)
    \/ handle_receiver_messages

SpecOperation == Init /\ [][NextOperation]_vars

\* The steps of the worker thread of an operation.
worker_thread(o) ==
    \/ list_apps_thread(o)
    \/ get_project_info_thread(o)
    \/ run_db_query_thread(o)
    \/ run_db_query_fallback(o)
    \/ test_db_connection_thread(o)
    \/ scan_for_projects_thread(o)
    \/ stream_spawn(o)
    \/ join_stdout(o)
    \/ join_stderr(o)
    \/ child_wait(o)
    \/ send_outcome(o)

\* The same under fair scheduling: none of the threads of the operation is
\* starved, the process closes its streams and exits (each pump sees its last
\* read, child.wait() returns), and frames keep occurring while the UI thread
\* lives.
FairOperation ==
    /\ SpecOperation
    /\ WF_vars(worker_thread(1) /\ UNCHANGED aside)
    /\ WF_vars(stdout_thread(1) /\ UNCHANGED aside)
    /\ WF_vars(stderr_thread(1) /\ UNCHANGED aside)
    /\ WF_vars(handle_receiver_messages)

\* A thread that clears the loading indicator itself when it ends.
background_clears_loading(o) ==
    /\ \/ list_apps_thread(o)
       \/ get_project_info_thread(o)
       \/ pick_folder_thread(o)
       \/ scan_for_projects_thread(o)
    /\ ui' = IF ops'[o].pc = "done" THEN [ui EXCEPT !.is_loading = FALSE] ELSE ui
    /\ UNCHANGED <<cleared_at, unread>>

\* A step of a background context of a listing, an info query or a project
\* search: the worker, the dialog thread or the scanner.  The closure of each
\* is `move` and owns a clone of the sender and its arguments, nothing of
\* LandoGui.
background(o) ==
    /\ \/ list_apps_thread(o)
       \/ get_project_info_thread(o)
       \/ pick_folder_thread(o)
       \/ scan_for_projects_thread(o)
    /\ UNCHANGED aside

\* A step of a background context of a lifecycle command: its worker or one
\* of its two pumps, which own the sender, the child and its pipes.
background_command(o) ==
    /\ \/ stream_spawn(o)
       \/ stdout_thread(o)
       \/ stderr_thread(o)
       \/ join_stdout(o)
       \/ join_stderr(o)
       \/ child_wait(o)
       \/ send_outcome(o)
    /\ UNCHANGED aside

\* A state of the window later in a session: the listing of the constructor
\* and a project search (of a tree with a manifest at every depth) have been
\* consumed, the user has selected the first project found and its services
\* are shown; the operations that led here are over.
InitProject ==
    /\ ops = [o \in Slots |-> Idle]
    /\ chan = <<>>
    /\ delivered = <<>>
    /\ ui = [NewGui EXCEPT !.apps = <<"site1">>,
                           !.projects = << <<"r">>, <<"r", "d">>, <<"r", "d", "d">> >>,
                           !.selected_project_path = Some(<<"r">>),
                           !.services = <<"site1">>,
                           !.is_loading = FALSE]
    /\ cleared_at = 0
    /\ unread = {}

\* The window without the lifecycle buttons: the frames of the consumer, the
\* navigation (search, selection, Home, clear), the refresh buttons, and the
\* threads of the operations they start; from the start of a session and from
\* a project being shown.
NextGui ==
    \/ handle_receiver_messages
    \/ \E o \in OpIds : refresh_all(o)
    \/ \E o \in OpIds : render_project_search_section(o)
    \/ \E o \in OpIds : render_projects_list(o)
    \/ \E o \in OpIds : render_database_services_interface(o)
    \/ \E o \in OpIds : render_services_section(o)
    \/ \E o \in OpIds : render_no_services_message(o)
    \/ navigate_home
    \/ clear_projects_list
    \/ \E o \in Slots : background(o)

SpecGui == (InitGui \/ InitProject) /\ [][NextGui]_vars

\* The project panel: the frames, the buttons that start an operation and set
\* the loading indicator (lifecycle commands, the refreshes, the search), and
\* every kind of background thread.
NextCommands ==
    \/ handle_receiver_messages
    \/ \E o \in OpIds : refresh_all(o)
    \/ \E o \in OpIds : render_lando_controls(o)
    \/ \E o \in OpIds : render_services_section(o)
    \/ \E o \in OpIds : render_project_search_section(o)
    \/ \E o \in Slots : background(o)
    \/ \E o \in Slots : background_command(o)

SpecCommands == InitProject /\ [][NextCommands]_vars

\* The services of a project: the selection of a project and the refresh
\* button, which ask for its services, Home and the clearing of the list, the
\* worker of get_project_info and the frames.
NextRefresh ==
    \/ handle_receiver_messages
    \/ \E o \in OpIds : render_projects_list(o)
    \/ \E o \in OpIds : render_services_section(o)
    \/ navigate_home
    \/ clear_projects_list
    \/ \E o \in OpIds : get_project_info_thread(o) /\ UNCHANGED aside

SpecRefresh == InitProject /\ [][NextRefresh]_vars

\* The same under fair scheduling: no worker is starved and frames keep
\* occurring.
FairRefresh ==
    /\ SpecRefresh
    /\ \A o \in OpIds : WF_vars(get_project_info_thread(o) /\ UNCHANGED aside)
    /\ WF_vars(handle_receiver_messages)

\* A step of the worker of a query or of a connection test.
background_query(o) ==
    /\ \/ run_db_query_thread(o)
       \/ run_db_query_fallback(o)
       \/ test_db_connection_thread(o)
    /\ UNCHANGED aside

\* The database view of a project: the frames, the drawing of the view, the
\* query editor, the buttons that run a query, a connection test or a
\* maintenance statement, the clearing of the history, and the workers.
NextDatabase ==
    \/ handle_receiver_messages
    \/ \E k \in DatabaseItems : show_service_details(k)
    \/ \E k \in DatabaseItems : show_query_editor(k)
    \/ \E k \in DatabaseItems, o \in OpIds : execute_query(k, o)
    \/ \E k \in DatabaseItems, o \in OpIds : explain_query(k, o)
    \/ \E k \in DatabaseItems, o \in OpIds : refresh_schema(k, o)
    \/ \E k \in DatabaseItems, o \in OpIds : test_connection(k, o)
    \/ \E k \in DatabaseItems, o \in OpIds : optimize_database(k, o)
    \/ \E k \in DatabaseItems : show_query_history_panel(k)
    \/ \E o \in OpIds : background_query(o)

SpecDatabase == InitProject /\ [][NextDatabase]_vars

\* The number of queries run earlier in a session: one more than the results
\* kept, one less than the history holds, and as many as it holds.
SessionSizes == {MaxResults + 1, MaxHistory - 1, MaxHistory}

\* The view of a service later in a session: the user has run n statements
\* that lando could not execute; each left its text in the history and its
\* placeholder among the results (the Error of a query is not handed to the
\* views while no query result is on display), and the last one is still in
\* the editor.
Session(n) ==
    [DatabaseUI_default EXCEPT
        !.query_input = Text(n),
        !.query_history = [i \in 1..n |-> Text(i)],
        !.query_results = [i \in 1..n |-> Placeholder(Text(i), "Ejecutando consulta...", 0)],
        !.current_result_index = n - 1]

\* The window of InitProject with such a view; the operations that led here
\* are over and a refresh of the services has cleared the last error.
InitSession ==
    /\ ops = [o \in Slots |-> Idle]
    /\ chan = <<>>
    /\ delivered = <<>>
    /\ \E n \in SessionSizes :
          ui = [NewGui EXCEPT !.apps = <<"site1">>,
                              !.projects = << <<"r">>, <<"r", "d">>, <<"r", "d", "d">> >>,
                              !.selected_project_path = Some(<<"r">>),
                              !.services = <<"site1">>,
                              !.is_loading = FALSE,
                              !.database_uis = ("site1" :> Session(n))]
    /\ cleared_at = 0
    /\ unread = {}

\* One more query in such a session: the frames, the drawing of the view, the
\* editor, the buttons that run a query or list the tables, the clearing of
\* the history, and the worker of the query.
NextHistory ==
    \/ handle_receiver_messages
    \/ \E k \in DatabaseItems : show_service_details(k)
    \/ \E k \in DatabaseItems : show_query_editor(k)
    \/ \E k \in DatabaseItems : execute_query(k, 1)
    \/ \E k \in DatabaseItems : explain_query(k, 1)
    \/ \E k \in DatabaseItems : refresh_schema(k, 1)
    \/ \E k \in DatabaseItems : show_query_history_panel(k)
    \/ background_query(1)

SpecHistory == InitSession /\ [][NextHistory]_vars

\* ======================================================================
\* Properties
\* ======================================================================
\* The messages of operation o, in send order.
SentBy(o) == SelectSeq(Sent, LAMBDA m : m.op = o)
\* Its terminal outcomes, in send order.
Terminals(o) == SelectSeq(Sent, LAMBDA m : m.op = o /\ m.tag \in TerminalTags)
\* Its LogOutput messages.
Logs(o) == SelectSeq(Sent, LAMBDA m : m.op = o /\ m.tag = "LogOutput")
\* Operation o has sent its terminal outcome t.
HasTerminal(o) == Len(Terminals(o)) >= 1
Terminal(o) == Terminals(o)[1]
\* The worker thread of o has returned.
Done(o) == ops[o].pc = "done"
\* Invocation i of o exited with success.
ExitedOk(o, i) ==
    /\ i \in DOMAIN ops[o].procs
    /\ ops[o].procs[i].ok
    /\ ops[o].procs[i].success
\* The process of a streaming operation was spawned.
WasSpawned(o) == Len(ops[o].procs) >= 1 /\ ops[o].procs[1].ok

\* C1: every dispatched operation, of every kind and with every spawn, exit
\* and decode result, sends exactly one terminal outcome: never two at any
\* time, and exactly one once its worker has returned.
C1_ExactlyOneTerminal ==
    \A o \in OpIds :
        /\ Len(Terminals(o)) <= 1
        /\ Done(o) => Len(Terminals(o)) = 1
        /\ ops[o].kind = "none" => SentBy(o) = <<>>

\* Every operation dispatched has returned and every message is consumed.
C1_Witness ==
    /\ chan = <<>>
    /\ \A o \in OpIds : Done(o)
    /\ \E o \in OpIds : ops[o].kind = "run_db_query" /\ Len(ops[o].procs) = 2
    /\ \E o \in OpIds : ops[o].kind \in StreamKinds /\ Logs(o) # <<>>

\* C2: in a streaming operation no LogOutput is sent or received after the
\* terminal outcome; once the terminal outcome is received, every LogOutput of
\* the operation has been received and neither pump can send another.
C2_LogBeforeTerminal ==
    \A o \in OpIds :
        /\ \A i, j \in DOMAIN Sent :
              (i < j /\ Sent[i].op = o /\ Sent[j].op = o /\ Sent[i].tag \in TerminalTags)
                  => Sent[j].tag # "LogOutput"
        /\ (\E i \in DOMAIN delivered :
                delivered[i].op = o /\ delivered[i].tag \in TerminalTags)
              => /\ \A j \in DOMAIN chan : chan[j].op # o
                 /\ ops[o].out.pc # "reading"
                 /\ ops[o].err.pc # "reading"

\* The consumer has received LogOutput of both streams of an operation and
\* then its terminal outcome.
C2_Witness ==
    \E o \in OpIds :
        /\ ops[o].kind \in StreamKinds
        /\ \E i, j, k \in DOMAIN delivered :
              /\ i < k /\ j < k
              /\ delivered[i].op = o /\ delivered[i].src = "stdout"
              /\ delivered[j].op = o /\ delivered[j].src = "stderr"
              /\ delivered[k].op = o /\ delivered[k].tag \in {"CommandSuccess", "Error"}

\* C3 as stated: in a streaming operation a terminal outcome is sent only
\* when both pumps have finished and child.wait() has returned.
C3_Original ==
    \A o \in OpIds :
        (ops[o].kind \in StreamKinds /\ HasTerminal(o))
            => /\ ops[o].out.pc = "done"
               /\ ops[o].err.pc = "done"
               /\ ops[o].status # "none"

\* C3: in a streaming operation whose process was spawned, the terminal
\* outcome is sent only when the stdout pump has finished, the stderr pump
\* has finished and child.wait() has returned; the worker does not pass the
\* joins before.
C3_ThreeWayJoin ==
    \A o \in OpIds :
        ops[o].kind \in StreamKinds =>
            /\ (WasSpawned(o) /\ HasTerminal(o))
                  => /\ ops[o].out.pc = "done"
                     /\ ops[o].err.pc = "done"
                     /\ ops[o].status # "none"
            /\ ops[o].pc \in {"join_stderr", "wait", "send", "done"} /\ WasSpawned(o)
                  => ops[o].out.pc = "done"
            /\ ops[o].pc \in {"wait", "send", "done"} /\ WasSpawned(o)
                  => ops[o].err.pc = "done"
            /\ ops[o].status # "none" => ops[o].pc \in {"send", "done"}

\* A spawned command whose two streams both produced output has sent its
\* terminal outcome, which is still in the channel.
C3_Witness ==
    \E o \in OpIds :
        /\ ops[o].kind \in StreamKinds
        /\ WasSpawned(o)
        /\ ops[o].out.n >= 1 /\ ops[o].err.n >= 1
        /\ \E i \in DOMAIN chan : chan[i].op = o /\ chan[i].tag = "CommandSuccess"

\* C4: for a spawned lifecycle or shell command the terminal outcome is
\* CommandSuccess exactly when the exit status is success and Error otherwise,
\* and the Error of a non-zero exit names the command.
C4_SuccessIffExitOk ==
    \A o \in OpIds :
        (ops[o].kind \in StreamKinds /\ WasSpawned(o) /\ HasTerminal(o)) =>
            LET t == Terminal(o)
            IN  /\ t.tag \in {"CommandSuccess", "Error"}
                /\ t.tag = "CommandSuccess" <=> ops[o].status = "success"
                /\ ops[o].status = "failure"
                      => /\ t.tag = "Error"
                         /\ \E i \in DOMAIN t.payload.args : t.payload.args[i] = ops[o].command

\* Both a lifecycle command that exited non-zero and a shell command that
\* exited with success have reported.
C4_Witness ==
    /\ \E o \in OpIds :
          /\ ops[o].kind = "run_lando_command" /\ ops[o].command = <<"stop">>
          /\ ops[o].status = "failure" /\ HasTerminal(o) /\ Terminal(o).tag = "Error"
    /\ \E o \in OpIds :
          /\ ops[o].kind = "run_shell_command"
          /\ ops[o].status = "success" /\ HasTerminal(o)

\* argv asks for the privileged user.
UsesRoot(argv) ==
    \E i \in 1..(Len(argv) - 1) : argv[i] = "-u" /\ argv[i + 1] = "root"

\* C5 as stated: DbQueryResult if either invocation exits with success, and
\* Error only if both invocations fail.
C5_Original ==
    \A o \in OpIds :
        (ops[o].kind = "run_db_query" /\ HasTerminal(o)) =>
            /\ (\E i \in DOMAIN ops[o].procs : ExitedOk(o, i))
                  => Terminal(o).tag = "DbQueryResult"
            /\ Terminal(o).tag = "Error"
                  => /\ Len(ops[o].procs) = 2
                     /\ ~ExitedOk(o, 1)
                     /\ ~ExitedOk(o, 2)

\* C5: run_db_query emits DbQueryResult exactly when the privileged or the
\* fallback invocation exits with success; it emits Error only if both
\* invocations fail or the privileged invocation cannot be spawned (then no
\* fallback is made).
C5_EitherSucceeds ==
    \A o \in OpIds :
        (ops[o].kind = "run_db_query" /\ HasTerminal(o)) =>
            /\ Terminal(o).tag \in {"DbQueryResult", "Error"}
            /\ Terminal(o).tag = "DbQueryResult"
                  <=> \E i \in DOMAIN ops[o].procs : ExitedOk(o, i)
            /\ Terminal(o).tag = "Error"
                  => \/ /\ Len(ops[o].procs) = 2
                        /\ ~ExitedOk(o, 1)
                        /\ ~ExitedOk(o, 2)
                     \/ /\ Len(ops[o].procs) = 1
                        /\ ~ops[o].procs[1].ok

\* The privileged invocation exited non-zero and the fallback succeeded.
C5_Witness ==
    \E o \in OpIds :
        /\ ops[o].kind = "run_db_query"
        /\ Len(ops[o].procs) = 2
        /\ UsesRoot(ops[o].procs[1].argv) /\ ~ExitedOk(o, 1)
        /\ ~UsesRoot(ops[o].procs[2].argv) /\ ExitedOk(o, 2)
        /\ HasTerminal(o) /\ Terminal(o).tag = "DbQueryResult"

\* C6 as stated: whenever the first attempt fails, the fallback is attempted
\* exactly once.
C6_Original ==
    \A o \in OpIds :
        (ops[o].kind = "run_db_query" /\ Done(o) /\ ~ExitedOk(o, 1))
            => Len(ops[o].procs) = 2

\* C6: whenever the first (privileged) attempt exits non-zero, the fallback
\* (no user) is attempted exactly once: never skipped, never repeated; it is
\* attempted in no other case.
C6_FallbackOnce ==
    \A o \in OpIds :
        ops[o].kind = "run_db_query" =>
            /\ Len(ops[o].procs) <= 2
            /\ (Done(o) /\ ops[o].procs[1].ok /\ ~ops[o].procs[1].success)
                  => /\ Len(ops[o].procs) = 2
                     /\ UsesRoot(ops[o].procs[1].argv)
                     /\ ~UsesRoot(ops[o].procs[2].argv)
            /\ Len(ops[o].procs) = 2
                  => ops[o].procs[1].ok /\ ~ops[o].procs[1].success

\* The first attempt exited non-zero, the fallback failed too, and the worker
\* has returned after these two attempts.
C6_Witness ==
    \E o \in OpIds :
        /\ ops[o].kind = "run_db_query" /\ Done(o)
        /\ Len(ops[o].procs) = 2
        /\ ops[o].procs[1].ok /\ ~ops[o].procs[1].success
        /\ ops[o].procs[2].ok /\ ~ops[o].procs[2].success

\* C7: only run_db_query retries: a dispatch of list_apps, get_project_info,
\* run_lando_command, run_shell_command or test_db_connection spawns at most
\* one process, whatever its result, and a dispatch of run_db_query at most two.
C7_NoRetry ==
    \A o \in OpIds :
        /\ ops[o].kind \in {"list_apps", "get_project_info", "run_lando_command",
                            "run_shell_command", "test_db_connection"}
              => Len(ops[o].procs) <= 1
        /\ ops[o].kind = "run_db_query" => Len(ops[o].procs) <= 2
        /\ ops[o].kind = "scan_for_projects" => Len(ops[o].procs) = 0

\* A failed connection test and a failed info query have returned after one
\* process each.
C7_Witness ==
    /\ \E o \in OpIds :
          /\ ops[o].kind = "test_db_connection" /\ Done(o)
          /\ Len(ops[o].procs) = 1 /\ ~ExitedOk(o, 1)
    /\ \E o \in OpIds :
          /\ ops[o].kind = "get_project_info" /\ Done(o)
          /\ Len(ops[o].procs) = 1 /\ ~ExitedOk(o, 1)

\* The failure text of invocation i of o as the worker words it: the decoded
\* stderr of a process that ran, the OS error of one that did not.
FailureOf(o, i) ==
    IF ops[o].procs[i].ok
    THEN FromUtf8Lossy(ops[o].procs[i].stderr)
    ELSE ops[o].procs[i].oserr

\* C8 as stated: the DbQueryResult payload is the stdout of the attempt that
\* succeeded, and an Error is emitted only after both attempts have failed,
\* carrying the second attempt's failure.
C8_Original ==
    \A o \in OpIds :
        (ops[o].kind = "run_db_query" /\ HasTerminal(o)) =>
            LET t == Terminal(o)
                n == Len(ops[o].procs)
            IN  /\ t.tag = "DbQueryResult"
                      => /\ ExitedOk(o, n)
                         /\ t.payload = FromUtf8Lossy(ops[o].procs[n].stdout)
                /\ t.tag = "Error"
                      => /\ n = 2
                         /\ ~ExitedOk(o, 1) /\ ~ExitedOk(o, 2)
                         /\ t.payload.args = <<FailureOf(o, 2)>>

\* C8: the DbQueryResult payload is the (lossily decoded) stdout of the
\* attempt that succeeded.  An Error is emitted either when the first attempt
\* cannot be spawned, carrying that spawn error, or after both attempts have
\* failed, carrying the second attempt's failure; the stderr of a first
\* attempt that exited non-zero is never reported.
C8_PayloadOfDecidingAttempt ==
    \A o \in OpIds :
        (ops[o].kind = "run_db_query" /\ HasTerminal(o)) =>
            LET t == Terminal(o)
                n == Len(ops[o].procs)
            IN  /\ t.tag = "DbQueryResult"
                      => /\ ExitedOk(o, n)
                         /\ \A i \in 1..(n - 1) : ~ExitedOk(o, i)
                         /\ t.payload = FromUtf8Lossy(ops[o].procs[n].stdout)
                /\ t.tag = "Error"
                      => /\ \/ n = 2 /\ ~ExitedOk(o, 1) /\ ~ExitedOk(o, 2)
                            \/ n = 1 /\ ~ops[o].procs[1].ok
                         /\ t.payload.args = <<FailureOf(o, n)>>
                         /\ (n = 2 /\ FailureOf(o, 1) # FailureOf(o, 2))
                               => t.payload.args # <<FailureOf(o, 1)>>

\* Both attempts exited non-zero with different stderr and the Error has been
\* received.
C8_Witness ==
    \E o \in OpIds :
        /\ ops[o].kind = "run_db_query"
        /\ Len(ops[o].procs) = 2
        /\ ops[o].procs[2].ok
        /\ ops[o].procs[1].stderr # ops[o].procs[2].stderr
        /\ \E i \in DOMAIN delivered :
              /\ delivered[i].op = o
              /\ delivered[i].tag = "Error"
              /\ delivered[i].payload.args = <<FailureOf(o, 2)>>

\* C9 as stated: test_db_connection emits the canned DbQueryResult exactly
\* when the probe's stdout contains "alive", and Error in every other case.
C9_Original ==
    \A o \in OpIds :
        (ops[o].kind = "test_db_connection" /\ HasTerminal(o)) =>
            LET t == Terminal(o)
            IN  /\ t.tag \in {"DbQueryResult", "Error"}
                /\ t.tag = "DbQueryResult" <=> Contains(ops[o].procs[1].stdout, Alive)

\* C9: test_db_connection emits DbQueryResult with the canned message exactly
\* when the probe exits with success and its stdout contains "alive"; in every
\* other case it emits Error, also when the exit status is success and the
\* substring is absent.
C9_AliveAndExitOk ==
    \A o \in OpIds :
        (ops[o].kind = "test_db_connection" /\ HasTerminal(o)) =>
            LET t == Terminal(o)
            IN  /\ t.tag \in {"DbQueryResult", "Error"}
                /\ t.tag = "DbQueryResult"
                      <=> (ExitedOk(o, 1) /\ Contains(ops[o].procs[1].stdout, Alive))
                /\ t.tag = "DbQueryResult" => t.payload = CannedSuccess

\* The probe exited with success without printing "alive" and the Error has
\* been received.
C9_Witness ==
    \E o \in OpIds :
        /\ ops[o].kind = "test_db_connection"
        /\ ExitedOk(o, 1)
        /\ ~Contains(ops[o].procs[1].stdout, Alive)
        /\ \E i \in DOMAIN delivered : delivered[i].op = o /\ delivered[i].tag = "Error"

\* The data outcome of a listing kind.
DataTag(kind) == IF kind = "list_apps" THEN "List" ELSE "Info"

\* C10: list_apps and get_project_info send no LogOutput and at most one
\* outcome: Error when the process cannot be spawned, Error when stdout does
\* not decode, List (Info) holding the decoded items on success; run_db_query
\* and test_db_connection send no LogOutput either.
C10_ListingOutcome ==
    \A o \in OpIds :
        /\ ops[o].kind \in OutputKinds => Logs(o) = <<>>
        /\ ops[o].kind \in {"list_apps", "get_project_info"} =>
              /\ Len(SentBy(o)) <= 1
              /\ Done(o) => Len(SentBy(o)) = 1
              /\ HasTerminal(o) =>
                    LET t == Terminal(o)
                        r == ops[o].procs[1]
                    IN  /\ ~r.ok => t.tag = "Error"
                        /\ (r.ok /\ r.success /\ ~DecodeOk(r.stdout)) => t.tag = "Error"
                        /\ (r.ok /\ r.success /\ DecodeOk(r.stdout))
                              => /\ t.tag = DataTag(ops[o].kind)
                                 /\ t.payload = SubSeq(r.stdout, 2, Len(r.stdout) - 1)

\* A listing whose stdout did not decode reported Error and an info query
\* that decoded reported Info.
C10_Witness ==
    /\ \E o \in OpIds :
          /\ ops[o].kind = "list_apps" /\ ExitedOk(o, 1) /\ ~DecodeOk(ops[o].procs[1].stdout)
          /\ HasTerminal(o) /\ Terminal(o).tag = "Error"
    /\ \E o \in OpIds :
          /\ ops[o].kind = "get_project_info" /\ ExitedOk(o, 1)
          /\ HasTerminal(o) /\ Terminal(o).tag = "Info" /\ Len(Terminal(o).payload) = 2

\* ------------------------------------------------------------ the scanner
\* The operations that scan.
Scans == {o \in OpIds : ops[o].kind = "scan_for_projects"}
\* The tree scan o walked.
WalkedTree(o) == ops[o].walk[1]
HasWalked(o) == ops[o].walk # <<>>
\* The paths of the Projects outcome of scan o.
Found(o) == {Terminal(o).payload[i] : i \in DOMAIN Terminal(o).payload}
\* The directories at the given depths below the root of scan o.
DirsAt(o, depths) == {DirPath(ops[o].path, k) : k \in depths}
\* The directories of a tree the walk can list: those above max_depth whose
\* ancestors and themselves can be read.
Listed(tree) ==
    {k \in Dirs : k < max_depth /\ \A j \in 0..k : j \notin tree.unreadable}
\* A readable tree with a manifest at each of the depths 0 to 4.
ManifestAtEveryDepth(tree) == (0..4) \subseteq tree.manifests /\ tree.unreadable = {}

\* C11 as stated: a scan of a tree with a manifest in the directories at
\* depths 0, 1, 2, 3 and 4 returns exactly the directories at depths 0 to 3.
C11_Original ==
    \A o \in Scans :
        (HasWalked(o) /\ ManifestAtEveryDepth(WalkedTree(o)))
            => Found(o) = DirsAt(o, 0..3)

\* C11: a scan returns exactly the directories that hold a manifest and that
\* the walk lists, each once; of a readable tree with a manifest at each of
\* the depths 0 to 4 these are the directories at depths 0 to 2, the ones at
\* depths 3 and 4 are excluded (their manifests are entries of depth 4 and 5,
\* beyond max_depth 3).
C11_ManifestEntryDepth ==
    \A o \in Scans :
        HasWalked(o) =>
            /\ HasTerminal(o)
            /\ Found(o) = DirsAt(o, WalkedTree(o).manifests \cap Listed(WalkedTree(o)))
            /\ Len(Terminal(o).payload) = Cardinality(Found(o))
            /\ ManifestAtEveryDepth(WalkedTree(o)) => Found(o) = DirsAt(o, 0..2)

\* A scan of the tree with a manifest at every depth has reported.
C11_Witness ==
    \E o \in Scans :
        /\ HasWalked(o)
        /\ ManifestAtEveryDepth(WalkedTree(o))
        /\ HasTerminal(o)
        /\ Len(Terminal(o).payload) = 3

\* C12: a scan sends exactly one message, a Projects outcome, never an Error
\* and never a partial list: the message is sent when the walk is over and
\* carries every manifest directory the walk listed, also when the walk found
\* none and when some directory could not be read.
C12_OneProjectsOutcome ==
    \A o \in Scans :
        /\ Len(SentBy(o)) <= 1
        /\ \A i \in DOMAIN SentBy(o) : SentBy(o)[i].tag = "Projects"
        /\ Done(o) <=> Len(SentBy(o)) = 1
        /\ Done(o) <=> HasWalked(o)
        /\ Done(o) =>
              /\ Found(o) = DirsAt(o, WalkedTree(o).manifests \cap Listed(WalkedTree(o)))
              /\ WalkedTree(o).manifests = {} => Terminal(o).payload = <<>>

\* One scan met a directory it could not read and still reported a project,
\* another found no manifest and reported the empty list.
C12_Witness ==
    /\ \E o \in Scans :
          /\ HasWalked(o)
          /\ WalkedTree(o).unreadable # {}
          /\ HasTerminal(o) /\ Terminal(o).tag = "Projects" /\ Terminal(o).payload # <<>>
    /\ \E o \in Scans :
          /\ HasWalked(o)
          /\ WalkedTree(o).manifests = {}
          /\ HasTerminal(o) /\ Terminal(o).tag = "Projects" /\ Terminal(o).payload = <<>>

\* ----------------------------------------------------- the project list
\* The Projects outcomes received since the list was last cleared.
ReceivedSinceClear ==
    {i \in DOMAIN delivered : i > cleared_at /\ delivered[i].tag = "Projects"}
\* The paths they carried.
PathsSinceClear ==
    UNION {{delivered[i].payload[k] : k \in DOMAIN delivered[i].payload} :
              i \in ReceivedSinceClear}

\* C13: in every state reached by frames that consume Projects outcomes and
\* by clear actions, the discovered-project list is strictly ascending (sorted,
\* no path twice) and its elements are exactly the paths received since the
\* last clear.
C13_SortedUnion ==
    /\ \A i, j \in DOMAIN ui.projects : i < j => PathLess(ui.projects[i], ui.projects[j])
    /\ {ui.projects[i] : i \in DOMAIN ui.projects} = PathsSinceClear

\* After a clear, two scans that both found one path have been consumed and
\* the list holds more than that path.
C13_Witness ==
    /\ cleared_at > 0
    /\ \E i, j \in ReceivedSinceClear :
          /\ i < j
          /\ \E k \in DOMAIN delivered[i].payload, l \in DOMAIN delivered[j].payload :
                delivered[i].payload[k] = delivered[j].payload[l]
    /\ Len(ui.projects) >= 3

\* ------------------------------------------------------------- the frames
\* C14: a frame polls once: its poll step takes at most one message, the
\* oldest, and leaves the others queued in their order; when it finds the
\* channel empty it changes nothing (apps, projects, services, the messages
\* and is_loading keep their values); no other step takes a message.
C14_OneOutcomePerFrame ==
    [][ /\ handle_receiver_messages =>
              /\ Len(delivered') <= Len(delivered) + 1
              /\ delivered' # delivered =>
                    /\ chan # <<>>
                    /\ delivered' = Append(delivered, Head(chan))
                    /\ chan' = Tail(chan)
              /\ chan = <<>> => UNCHANGED <<ui, delivered, chan>>
        /\ delivered' # delivered => handle_receiver_messages
      ]_vars

\* A frame has taken one message of a burst and left two queued.
C14_Witness ==
    /\ Len(delivered) >= 1
    /\ Len(chan) >= 2
    /\ ui.running
    /\ ~ui.is_loading

\* ------------------------------------------------------------- liveness
\* The most messages the operations of one behaviour can send.
MaxMsgs == MaxChunks + MaxOps

\* C19: when its threads are scheduled fairly and the process closes both
\* streams and exits, every dispatched operation eventually sends its terminal
\* outcome and its worker returns; for a streaming command, in every
\* interleaving of the two pumps, the joins and the wait.
C19_EventuallyTerminal ==
    \A o \in OpIds :
        (ops[o].kind # "none") ~> (HasTerminal(o) /\ Done(o))

\* A spawned command whose two streams both produced output has sent its
\* terminal outcome.
C19_Witness ==
    \E o \in OpIds :
        /\ ops[o].kind \in StreamKinds
        /\ WasSpawned(o)
        /\ ops[o].out.n >= 1 /\ ops[o].err.n >= 1
        /\ HasTerminal(o) /\ Done(o)

\* C20: while frames keep occurring, the n-th message placed on the channel is
\* eventually the n-th message consumed, for every n: each consuming step
\* takes the oldest queued message and only that one.
C20_EventuallyDrained ==
    /\ \A n \in 1..MaxMsgs :
          (Len(Sent) >= n) ~> (Len(delivered) >= n \/ ~ui.running)
    /\ [][delivered' # delivered =>
             /\ chan # <<>>
             /\ delivered' = Append(delivered, Head(chan))
             /\ chan' = Tail(chan)]_vars

\* A burst of three messages was queued and has been consumed to the last.
C20_Witness ==
    /\ Len(delivered) >= 3
    /\ chan = <<>>
    /\ ui.running
    /\ \A o \in OpIds : ops[o].kind # "none" => Done(o)

\* ------------------------------------------------------------ the streams
Streams == {"stdout", "stderr"}
\* The chunks of one stream of operation o within a sequence of messages.
ChunksOf(msgs, o, src) ==
    SelectSeq(msgs, LAMBDA m : m.op = o /\ m.tag = "LogOutput" /\ m.src = src)
\* The number of non-empty reads the pump of a stream has made.
Produced(o, src) == IF src = "stdout" THEN ops[o].out.n ELSE ops[o].err.n
\* The consumer has the terminal outcome of o.
TerminalDelivered(o) ==
    \E i \in DOMAIN delivered : delivered[i].op = o /\ delivered[i].tag \in TerminalTags

\* C15 as stated: the chunks of each stream reach the consumer in the order
\* read, and once the operation has reported, every byte of both streams has
\* been delivered: no stream is left with bytes that were not read.
C15_Original ==
    \A o \in OpIds : \A src \in Streams :
        LET got == ChunksOf(delivered, o, src)
        IN  /\ \A i \in DOMAIN got : got[i].payload.seq = i
            /\ TerminalDelivered(o) =>
                  /\ Len(got) = Produced(o, src)
                  /\ <<o, src>> \notin unread

\* C15: of each stream of a streaming operation, the chunks sent are the
\* non-empty reads of its pump, each once and in read order; the consumer
\* receives them in that order and has received all of them when it has the
\* terminal outcome; a stream is left unread only by a failed read, which ends
\* its pump.
C15_PerStreamOrder ==
    \A o \in OpIds : \A src \in Streams :
        LET sent == ChunksOf(Sent, o, src)
            got == ChunksOf(delivered, o, src)
        IN  /\ Len(sent) = Produced(o, src)
            /\ \A i \in DOMAIN sent : sent[i].payload.seq = i
            /\ \A i \in DOMAIN got : got[i].payload.seq = i
            /\ TerminalDelivered(o) => Len(got) = Produced(o, src)
            /\ <<o, src>> \in unread =>
                  IF src = "stdout" THEN ops[o].out.pc = "done" ELSE ops[o].err.pc = "done"

\* The consumer has two chunks of one stream, then the terminal outcome.
C15_Witness ==
    \E o \in OpIds : \E src \in Streams :
        /\ Len(ChunksOf(delivered, o, src)) >= 2
        /\ TerminalDelivered(o)

\* -------------------------------------------------------------- the sends
\* C16: a thread that has a message to send can send it in its next step,
\* however many messages are queued: a worker at its terminal send, a pump
\* whose read returned bytes, and a worker of a streaming command whose spawn
\* fails.
C16_SendNeverBlocks ==
    \A o \in OpIds :
        /\ ops[o].pc = "send" => ENABLED send_outcome(o)
        /\ (ops[o].out.pc = "reading" /\ ChunksRead < MaxChunks)
              => ENABLED (stdout_thread(o) /\ chan' # chan)
        /\ (ops[o].err.pc = "reading" /\ ChunksRead < MaxChunks)
              => ENABLED (stderr_thread(o) /\ chan' # chan)
        /\ (ops[o].kind \in StreamKinds /\ ops[o].pc = "run")
              => ENABLED (stream_spawn(o) /\ chan' # chan)

\* Three messages are queued, the consumer has taken none, and a worker is
\* about to send.
C16_Witness ==
    /\ Len(chan) >= 3
    /\ delivered = <<>>
    /\ \E o \in OpIds : ops[o].pc = "send"

\* C17: while both streams of a streaming operation are open, a chunk read
\* from either is forwarded without a step of the other pump: the stderr pump
\* can send while the stdout pump is still reading, whatever stdout has
\* produced, and the stdout pump can send while the stderr pump is still
\* reading; the send leaves the other pump where it is.
C17_StreamsIndependent ==
    \A o \in OpIds :
        (/\ ops[o].out.pc = "reading"
         /\ ops[o].err.pc = "reading"
         /\ ChunksRead < MaxChunks)
            => /\ ENABLED (/\ stderr_thread(o)
                           /\ chan' # chan
                           /\ ops'[o].out = ops[o].out)
               /\ ENABLED (/\ stdout_thread(o)
                           /\ chan' # chan
                           /\ ops'[o].err = ops[o].err)

\* stdout is open and has produced nothing, and the consumer has a chunk of
\* stderr.
C17_Witness ==
    \E o \in OpIds :
        /\ ops[o].out.pc = "reading"
        /\ ops[o].out.n = 0
        /\ Len(ChunksOf(delivered, o, "stderr")) >= 1

\* ------------------------------------------------------------ the dispatch
\* The step of a dispatch call on slot o.
Dispatched(o) == ops[o].kind = "none" /\ ops'[o].kind # "none"

\* C18: a dispatch call only starts the worker thread: when it returns no
\* process is spawned, nothing is sent and no other operation has moved; and
\* the poll step of the UI thread is enabled in every state in which that
\* thread runs, whatever the operations in flight and their states.
C18_DispatchReturnsAtOnce ==
    /\ [](ui.running => ENABLED handle_receiver_messages)
    /\ [][\A o \in OpIds :
             Dispatched(o) =>
                 /\ ops'[o].pc = "run"
                 /\ ops'[o].procs = <<>>
                 /\ ops'[o].out.pc = "none" /\ ops'[o].err.pc = "none"
                 /\ \A p \in OpIds \ {o} : ops'[p] = ops[p]
                 /\ UNCHANGED <<chan, delivered, ui>>]_vars

\* Frames have occurred and occur still while one command is dispatched and
\* not yet spawned, another has its pumps reading, and the channel is empty.
C18_Witness ==
    /\ ui.running
    /\ Len(delivered) >= 1
    /\ chan = <<>>
    /\ \E o, p \in OpIds :
          /\ ops[o].kind \in StreamKinds /\ ops[o].pc = "run"
          /\ ops[p].out.pc = "reading" /\ ops[p].err.pc = "reading"

\* ------------------------------------------------------- spawn failures
\* Operation o made an invocation that could not be spawned.
SpawnFailed(o) == \E i \in DOMAIN ops[o].procs : ~ops[o].procs[i].ok

\* C25: an invocation that cannot be spawned is the last one of its
\* operation, whatever the kind: the worker has returned, it has sent exactly
\* one Error, whose text holds the OS error, and no other terminal outcome;
\* of a streaming command neither pump was started and no LogOutput was sent.
C25_SpawnFailureTerminal ==
    \A o \in OpIds : \A i \in DOMAIN ops[o].procs :
        ~ops[o].procs[i].ok =>
            /\ i = Len(ops[o].procs)
            /\ Done(o)
            /\ Len(Terminals(o)) = 1
            /\ Terminal(o).tag = "Error"
            /\ Terminal(o).payload.args = <<ops[o].procs[i].oserr>>
            /\ Logs(o) = <<>>
            /\ ops[o].out.pc = "none" /\ ops[o].err.pc = "none"
            /\ ops[o].out.n = 0 /\ ops[o].err.n = 0
            /\ ops[o].status = "none"

\* A query whose privileged invocation could not be spawned and a lifecycle
\* command that could not be spawned have both reported.
C25_Witness ==
    /\ \E o \in OpIds :
          /\ ops[o].kind = "run_db_query"
          /\ Len(ops[o].procs) = 1 /\ ~ops[o].procs[1].ok
          /\ HasTerminal(o)
    /\ \E o \in OpIds :
          /\ ops[o].kind = "run_lando_command"
          /\ SpawnFailed(o)
          /\ HasTerminal(o)

\* ------------------------------------------------------- failed reads
\* The Error outcomes of operation o, in send order.
Errors(o) == SelectSeq(Sent, LAMBDA m : m.op = o /\ m.tag = "Error")
\* The pump of a stream of o has ended.
PumpDone(o, src) == IF src = "stdout" THEN ops[o].out.pc = "done" ELSE ops[o].err.pc = "done"

\* C26: a failed read of stdout or stderr ends the pump of that stream and
\* nothing else: the step sends nothing and takes nothing back (the chunks
\* forwarded before stay sent and stay delivered), no Error is ever sent for
\* it, and the operation still sends exactly one terminal outcome, the one the
\* exit status decides.
C26_ReadErrorSilent ==
    /\ [](\A o \in OpIds : \A src \in Streams :
            <<o, src>> \in unread =>
                /\ PumpDone(o, src)
                /\ Len(ChunksOf(Sent, o, src)) = Produced(o, src)
                /\ Len(Terminals(o)) <= 1
                /\ Done(o) => Len(Terminals(o)) = 1
                /\ \A i \in DOMAIN SentBy(o) : SentBy(o)[i].tag \in {"LogOutput", "CommandSuccess", "Error"}
                /\ Len(Errors(o)) = IF HasTerminal(o) /\ ops[o].status # "success" THEN 1 ELSE 0
                /\ HasTerminal(o) =>
                      LET outcome == stream_outcome(ops[o].kind, ops[o].command, ops[o].status)
                      IN  /\ Terminal(o).tag = outcome.tag
                          /\ Terminal(o).payload = outcome.payload
                          /\ Terminal(o).tag = "CommandSuccess" <=> ops[o].status = "success")
    /\ [][unread' # unread => UNCHANGED <<chan, delivered>>]_vars

\* A read of stdout failed after one chunk; the consumer has that chunk and,
\* after it, the CommandSuccess of the command.
C26_Witness ==
    \E o \in OpIds :
        /\ <<o, "stdout">> \in unread
        /\ Len(ChunksOf(delivered, o, "stdout")) >= 1
        /\ \E i \in DOMAIN delivered : delivered[i].op = o /\ delivered[i].tag = "CommandSuccess"

\* C27: a pump sends one LogOutput per non-empty read and none for an empty
\* one: every LogOutput sent holds between 1 and 1024 bytes, each stream has
\* as many chunks as its pump made non-empty reads, and a pump that has ended
\* (its read returned 0 bytes) sends nothing more.
C27_ChunkSizes ==
    /\ [](/\ \A i \in DOMAIN Sent :
                Sent[i].tag = "LogOutput" =>
                    /\ Sent[i].payload.n >= 1
                    /\ Sent[i].payload.n <= BufferSize
          /\ \A o \in OpIds : \A src \in Streams :
                Len(ChunksOf(Sent, o, src)) = Produced(o, src))
    /\ [][\A o \in OpIds : \A src \in Streams :
             PumpDone(o, src) =>
                 /\ PumpDone(o, src)'
                 /\ ChunksOf(Sent, o, src)' = ChunksOf(Sent, o, src)]_vars

\* The stdout pump forwarded a read of one byte and a read that filled the
\* buffer, then saw the end of the stream.
C27_Witness ==
    \E o \in OpIds :
        /\ ops[o].out.pc = "done"
        /\ <<o, "stdout">> \notin unread
        /\ \E i, j \in DOMAIN ChunksOf(Sent, o, "stdout") :
              /\ ChunksOf(Sent, o, "stdout")[i].payload.n = 1
              /\ ChunksOf(Sent, o, "stdout")[j].payload.n = BufferSize

\* ---------------------------------------------------------- navigation
\* The info queries.
Infos == {o \in OpIds : ops[o].kind = "get_project_info"}
\* A step that takes the user away from the project shown: Home, the clearing
\* of the list, or the selection of another project.
NavigatesAway ==
    \/ ui'.selected_project_path # ui.selected_project_path
    \/ ui.projects # <<>> /\ ui'.projects = <<>>

\* C21: there is no cancellation.  A step that navigates Home, clears the
\* project list or selects another project leaves every operation in flight
\* where it is and the channel as it is; and, threads being scheduled and
\* frames occurring, every get_project_info dispatched has its terminal
\* outcome (Info or Error) consumed, whatever the user does meanwhile.
C21_NoCancellation ==
    /\ [][NavigatesAway =>
             /\ \A o \in Slots : ops[o].kind # "none" => ops'[o] = ops[o]
             /\ UNCHANGED <<chan, delivered>>]_vars
    /\ \A o \in OpIds :
          (ops[o].kind = "get_project_info")
              ~> (\E i \in DOMAIN delivered :
                     delivered[i].op = o /\ delivered[i].tag \in {"Info", "Error"})

\* The Info of a refresh has been consumed after the user went Home: no
\* project is selected and services are listed.
C21_Witness ==
    \E o \in Infos :
        /\ ~HasSelection
        /\ ui.services # <<>>
        /\ \E i \in DOMAIN delivered : delivered[i].op = o /\ delivered[i].tag = "Info"

\* ------------------------------------------------- the life of an outcome
\* C22 as stated: every outcome on the channel was put there by a background
\* context (the worker or a pump) of a dispatched operation, never by the UI
\* thread, and the consumer holds each outcome it took once: what it has
\* taken and what is queued are together what was sent, each message once.
C22_OnlyBackgroundSends ==
    /\ \A i \in DOMAIN Sent :
          /\ Sent[i].src \in {"worker", "stdout", "stderr"}
          /\ Sent[i].op \in Slots
          /\ ops[Sent[i].op].kind # "none"
    /\ \A o \in Slots : Len(Terminals(o)) <= 1

\* The frame takes the message m.
Consumes(m) == chan # <<>> /\ Head(chan) = m /\ delivered' = Append(delivered, m)

\* C23 as stated: a frame that consumes FinishedLoading stops the loading
\* indicator and changes nothing else: apps, projects, services, the query
\* result, the error message and the success message keep their values.
C23_FinishedLoadingNoOp ==
    [][\A o \in OpIds :
          Consumes(Msg(o, "FinishedLoading", <<>>)) =>
              /\ ~ui'.is_loading
              /\ ui'.apps = ui.apps
              /\ ui'.projects = ui.projects
              /\ ui'.services = ui.services
              /\ ui'.db_query_result = ui.db_query_result
              /\ ui'.error_message = ui.error_message
              /\ ui'.success_message = ui.success_message]_vars

\* The last message the consumer took.
LastDelivered == delivered[Len(delivered)]

\* C24: a frame that consumes an Error outcome, of an operation of any kind,
\* stores the message of that outcome as the error message on display and
\* leaves is_loading false.
C24_ErrorDisplayed ==
    [][\A o \in OpIds :
          (/\ chan # <<>>
           /\ Head(chan).op = o
           /\ Head(chan).tag = "Error"
           /\ delivered' = Append(delivered, Head(chan)))
              => /\ ui'.error_message = Some(Head(chan).payload)
                 /\ ~ui'.is_loading]_vars

\* The Error of a connection test that printed no "alive" is on display, and
\* nothing is shown as loading.
C24_Witness ==
    /\ delivered # <<>>
    /\ LastDelivered.tag = "Error"
    /\ ops[LastDelivered.op].kind = "test_db_connection"
    /\ ui.error_message = Some(LastDelivered.payload)
    /\ ~ui.is_loading

\* ------------------------------------------------------- shared state
\* A step of a background context: an operation already started moves.
BackgroundStep == \E o \in Slots : ops[o].kind # "none" /\ ops'[o] # ops[o]

\* C28: the channel is the only state shared between the contexts.  A step of
\* a background context (a worker, a pump, the scanner, the dialog thread)
\* leaves everything the consumer owns unchanged (apps, projects, services,
\* the selection, the messages, is_loading, the query result, the log) and
\* takes nothing from the channel: at most it appends one message; the
\* consumer's state changes only in steps of the UI thread.
C28_OnlyChannelShared ==
    [][/\ BackgroundStep =>
             /\ UNCHANGED <<ui, cleared_at, delivered>>
             /\ \/ chan' = chan
                \/ \E m \in {chan'[Len(chan')]} : chan' = Append(chan, m)
       /\ ui' # ui => ~BackgroundStep
      ]_vars

\* While the indicator shows loading, a lifecycle command has had chunks of
\* both streams forwarded and a project search has been scanned: threads of
\* every kind have run.
C28_Witness ==
    /\ ui.is_loading
    /\ \E o \in OpIds :
          /\ ops[o].kind = "run_lando_command"
          /\ ops[o].out.n >= 1 /\ ops[o].err.n >= 1
    /\ \E o \in OpIds : ops[o].kind = "scan_for_projects" /\ Done(o)

\* ------------------------------------------------------------ listings
\* The listings: the one of the constructor and those of "Refrescar Todo".
Listings == {o \in Slots : ops[o].kind = "list_apps"}
\* The tool gave the listings o and p the same response: both processes ran,
\* with the same exit status and the same stdout.
SameResponse(o, p) ==
    /\ Len(ops[o].procs) = 1 /\ Len(ops[p].procs) = 1
    /\ ops[o].procs[1].ok /\ ops[p].procs[1].ok
    /\ ops[o].procs[1].success = ops[p].procs[1].success
    /\ ops[o].procs[1].stdout = ops[p].procs[1].stdout

EndingTags == TerminalTags \cup {"FinishedLoading"}
\* Operation o was started by a control and the consumer has not yet taken
\* the outcome that ends it.
InFlight(o) ==
    /\ ops[o].kind # "none"
    /\ ~\E i \in DOMAIN delivered : delivered[i].op = o /\ delivered[i].tag \in EndingTags

\* C30 as stated: while an operation the user started has not had its
\* terminal outcome consumed, is_loading is true.
C30_LoadingReflectsInFlight ==
    \A o \in OpIds : InFlight(o) => ui.is_loading

\* ------------------------------------------- the gate of the lifecycle buttons
\* The process of lifecycle command o was spawned and its worker has not yet
\* sent the outcome that ends it.
CommandRunning(o) ==
    /\ ops[o].kind = "run_lando_command"
    /\ WasSpawned(o)
    /\ ~HasTerminal(o)

\* C31 as stated: at most one lifecycle command started from the lifecycle
\* buttons is in flight (spawned and not yet terminal) at any time.
C31_OneCommandInFlight ==
    \A o, p \in OpIds : CommandRunning(o) /\ CommandRunning(p) => o = p

\* ------------------------------------------------- the services on display
\* The positions of the Info outcomes the consumer has taken.
InfoIndexes == {i \in DOMAIN delivered : delivered[i].tag = "Info"}
\* The Info outcome taken last: the one whose services are on display.
LastInfo == delivered[CHOOSE i \in InfoIndexes : \A j \in InfoIndexes : j <= i]

\* C32 as stated: whenever services is non-empty it is the Info result of a
\* get_project_info dispatched for the path now in selected_project_path,
\* also when the selection changes while a refresh is in flight.
C32_ServicesOfSelection ==
    (ui.services # <<>> /\ InfoIndexes # {}) =>
        /\ LastInfo.payload = ui.services
        /\ HasSelection
        /\ ops[LastInfo.op].path = Selected

\* C33 as stated: whenever no project is selected the services list is
\* empty, also after Home or a clearing of the project list while a
\* get_project_info is in flight.
C33_NoSelectionNoServices ==
    ~HasSelection => ui.services = <<>>

\* ------------------------------------------------- the chunks of a stream
\* C34 as stated: a frame that consumes a LogOutput outcome, whatever bytes a
\* pump put in it (a chunk may end in the middle of a multi-byte character),
\* completes, and the poll loop keeps running.
C34_LogOutputNeverAborts ==
    [][(/\ ui.running
        /\ chan # <<>>
        /\ Head(chan).tag = "LogOutput"
        /\ delivered' = Append(delivered, Head(chan)))
       => ui'.running]_vars

\* -------------------------------------------------- the database views
\* The frame takes the outcome m of operation o.
ConsumesOf(o, tags) ==
    /\ ui.running
    /\ chan # <<>>
    /\ Head(chan).op = o
    /\ Head(chan).tag \in tags
    /\ delivered' = Append(delivered, Head(chan))

\* C35 as stated: a frame that consumes a DbQueryResult updates the
\* specialised database views in place: every view that existed before still
\* exists, with its query history and its earlier results kept, and its last
\* query result holds the result text with has_error false.
C35_ViewsUpdatedInPlace ==
    [][\A o \in OpIds :
          ConsumesOf(o, {"DbQueryResult"}) =>
              \A k \in DOMAIN ui.database_uis :
                  /\ k \in DOMAIN ui'.database_uis
                  /\ ui'.database_uis[k].query_history = ui.database_uis[k].query_history
                  /\ LET before == ui.database_uis[k].query_results
                         after == ui'.database_uis[k].query_results
                     IN  /\ after # <<>>
                         /\ after[Len(after)].result = Head(chan).payload
                         /\ ~after[Len(after)].has_error
                         /\ \A i \in 1..(Len(before) - 1) :
                               \E j \in DOMAIN after : after[j] = before[i]]_vars

\* C36 as stated: the entry into which the result of a consumed DbQueryResult
\* or query Error of operation o is written, in every view, is the
\* placeholder pushed by the call that dispatched o.
C36_ResultOfItsQuery ==
    [][\A o \in OpIds :
          (/\ ConsumesOf(o, {"DbQueryResult", "Error"})
           /\ Head(chan).tag = "Error" => ErrorOfQuery(ui))
          => \A k \in DOMAIN ui.database_uis :
                LET r == Taken(ui, Head(chan).payload, Head(chan).tag = "Error")[k].query_results
                IN  r[Len(r)].op = o]_vars

\* C37 as stated: when the terminal outcome of the probe a test_connection
\* started is consumed while the view's connection_status is Testing, the
\* status becomes Connected on DbQueryResult and Error on an Error outcome,
\* whatever the query result and the query input are.
C37_ProbeOutcomeSetsStatus ==
    [][\A o \in OpIds :
          \A k \in DOMAIN ui.database_uis :
              (/\ ConsumesOf(o, {"DbQueryResult", "Error"})
               /\ ops[o].kind = "test_db_connection"
               /\ ops[o].service = k
               /\ ui.database_uis[k].connection_status.tag = "Testing")
              => /\ k \in DOMAIN ui'.database_uis
                 /\ ui'.database_uis[k].connection_status.tag =
                        (IF Head(chan).tag = "DbQueryResult" THEN "Connected" ELSE "Error")]_vars

\* ------------------------------------------- the stored results and history
\* C39 as stated: after every call of update_query_result (one per view for
\* each DbQueryResult or query Error consumed) the view's query_results
\* holds at most 20 entries, whatever calls of execute_query and
\* refresh_schema came before.
C39_ResultsCapped ==
    [][\A o \in OpIds :
          (/\ ConsumesOf(o, {"DbQueryResult", "Error"})
           /\ Head(chan).tag = "Error" => ErrorOfQuery(ui))
          => \A k \in DOMAIN ui.database_uis :
                Len(Taken(ui, Head(chan).payload, Head(chan).tag = "Error")[k].query_results)
                    <= MaxResults]_vars

\* The query history of view k.
History(k) == ui.database_uis[k].query_history

\* C40: the query history of a view holds at most 50 entries and no text
\* twice, in every state; and a step that adds a text to a history of 50
\* drops the oldest entry: the other 49 move up and the new text is last.
C40_HistoryCapped ==
    /\ [](\A k \in DOMAIN ui.database_uis :
             /\ Len(History(k)) <= MaxHistory
             /\ \A i, j \in DOMAIN History(k) : History(k)[i] = History(k)[j] => i = j)
    /\ [][\A k \in DOMAIN ui.database_uis :
             (/\ k \in DOMAIN ui'.database_uis
              /\ Len(History(k)) = MaxHistory
              /\ History(k)' # History(k)
              /\ History(k)' # <<>>)
             => /\ Len(History(k)') = MaxHistory
                /\ SubSeq(History(k)', 1, MaxHistory - 1) = Tail(History(k))
                /\ \A i \in DOMAIN History(k) : History(k)[i] # History(k)'[MaxHistory]]_vars

\* A full history has dropped its oldest text, Text(1), for the statement
\* just run.
C40_Witness ==
    \E k \in DOMAIN ui.database_uis :
        /\ Len(History(k)) = MaxHistory
        /\ History(k)[1] = Text(2)
        /\ History(k)[MaxHistory] = Text(0)
        /\ ops[1].kind = "run_db_query"
        /\ ops[1].query = Text(0)

\* ------------------------------------------------------ the two messages
\* C38: error_message and success_message are never both set, in every
\* state the window reaches by consuming outcomes and by Home.
C38_NeverBothMessages ==
    ~(ui.error_message # None /\ ui.success_message # None)

\* A success is shown right after the frame that consumed an Error, whose
\* message the poll has taken down.
C38_Witness ==
    /\ Len(delivered) >= 2
    /\ delivered[Len(delivered) - 1].tag = "Error"
    /\ delivered[Len(delivered)].tag = "CommandSuccess"
    /\ ui.success_message # None
    /\ ui.error_message = None

====
